---- MODULE Spec2Model ----
(***************************************************************************)
(* Model of the irrigation dashboard (app/page.tsx, kept in                *)
(* src/unnamed/part_004) and of the pump relay route (app/api/pump/route.ts,*)
(* kept in src/app/api/schedule/route.ts from line 198 on).                 *)
(*                                                                         *)
(* JavaScript values are records [t, n, d, a]: t is the type tag ("num",   *)
(* "undef", "nan", "bool", "str", "obj", "arr"), n/d an exact reduced      *)
(* fraction for a number (floating-point rounding is not modelled), n = 1  *)
(* or 0 for a boolean, and a the elements of an array.                     *)
(***************************************************************************)
EXTENDS Integers, Sequences, FiniteSets, TLC

(* ---------------------------------------------------------------------- *)
(* JavaScript values                                                       *)
(* ---------------------------------------------------------------------- *)

Abs(x) == IF x < 0 THEN -x ELSE x

RECURSIVE GCD(_, _)
GCD(a, b) == IF b = 0 THEN a ELSE GCD(b, a % b)

JNum(n, d) ==
  LET g == GCD(Abs(n), d)
  IN  [t |-> "num", n |-> n \div g, d |-> d \div g, a |-> <<>>]

JInt(n) == JNum(n, 1)
JUndef == [t |-> "undef", n |-> 0, d |-> 1, a |-> <<>>]
JNaN == [t |-> "nan", n |-> 0, d |-> 1, a |-> <<>>]
JStr == [t |-> "str", n |-> 0, d |-> 1, a |-> <<>>]
JObj == [t |-> "obj", n |-> 0, d |-> 1, a |-> <<>>]
JBool(b) == [t |-> "bool", n |-> IF b THEN 1 ELSE 0, d |-> 1, a |-> <<>>]
JArr(s) == [t |-> "arr", n |-> 0, d |-> 1, a |-> s]
JTrue == JBool(TRUE)
JFalse == JBool(FALSE)

IsNum(v) == v.t = "num"

\* ToBoolean: undefined, NaN, 0 and false are falsy; strings here are never empty.
Truthy(v) ==
  CASE v.t = "num" -> v.n # 0
    [] v.t = "bool" -> v.n = 1
    [] v.t \in {"undef", "nan"} -> FALSE
    [] OTHER -> TRUE

\* a || b
JOr(x, y) == IF Truthy(x) THEN x ELSE y

\* a ?? b (only undefined is modelled as nullish)
JNullish(x, y) == IF x.t = "undef" THEN y ELSE x

\* x === 1
StrictEqOne(v) == v.t = "num" /\ v.n = 1 /\ v.d = 1

\* x + y on numbers; anything else taints the sum (NaN stands for every non-number result)
JAdd(x, y) ==
  IF IsNum(x) /\ IsNum(y) THEN JNum(x.n * y.d + y.n * x.d, x.d * y.d) ELSE JNaN

\* x / k for a positive integer k
JDivInt(x, k) == IF IsNum(x) THEN JNum(x.n, x.d * k) ELSE JNaN

\* x > k for an integer k (false for a non-number, as a comparison with NaN is)
JGreaterInt(x, k) == IsNum(x) /\ x.n > k * x.d

\* Math.round(x): floor(x + 1/2)
JRound(x) == IF IsNum(x) THEN JInt((2 * x.n + x.d) \div (2 * x.d)) ELSE JNaN

\* arr.reduce((a, b) => a + b, 0)
RECURSIVE ReduceSum(_)
ReduceSum(s) == IF s = <<>> THEN JInt(0) ELSE JAdd(ReduceSum(SubSeq(s, 1, Len(s) - 1)), s[Len(s)])

\* arr[i] with JavaScript's 0-based index; undefined past the end or on a non-array
Index(v, i) == IF v.t = "arr" /\ i + 1 <= Len(v.a) THEN v.a[i + 1] ELSE JUndef

(* ---------------------------------------------------------------------- *)
(* Strings and the regular expressions the handler uses                    *)
(* ---------------------------------------------------------------------- *)

Ch(s, i) == SubSeq(s, i, i)

StartsAt(s, pat, i) == i + Len(pat) - 1 <= Len(s) /\ SubSeq(s, i, i + Len(pat) - 1) = pat

\* s.includes(pat)
Includes(s, pat) == \E i \in 1..Len(s) : StartsAt(s, pat, i)

\* s.startsWith(pat)
StartsWith(s, pat) == StartsAt(s, pat, 1)

\* s.replace(pat, ''): the first occurrence only
RemoveFirst(s, pat) ==
  IF ~Includes(s, pat) THEN s
  ELSE LET i == CHOOSE k \in 1..Len(s) : StartsAt(s, pat, k) /\ \A j \in 1..(k - 1) : ~StartsAt(s, pat, j)
       IN  SubSeq(s, 1, i - 1) \o SubSeq(s, i + Len(pat), Len(s))

Digits == {"0", "1", "2", "3", "4", "5", "6", "7", "8", "9"}
DigitsDot == Digits \cup {"."}
Lower == {"a", "b", "c", "d", "e", "f", "g", "h", "i", "j", "k", "l", "m",
          "n", "o", "p", "q", "r", "s", "t", "u", "v", "w", "x", "y", "z"}
Upper == {"A", "B", "C", "D", "E", "F", "G", "H", "I", "J", "K", "L", "M",
          "N", "O", "P", "Q", "R", "S", "T", "U", "V", "W", "X", "Y", "Z"}
WordCh == Digits \cup Lower \cup Upper \cup {"_"}
SpaceCh == {" "}

DigitVal(c) ==
  CASE c = "0" -> 0 [] c = "1" -> 1 [] c = "2" -> 2 [] c = "3" -> 3 [] c = "4" -> 4
    [] c = "5" -> 5 [] c = "6" -> 6 [] c = "7" -> 7 [] c = "8" -> 8 [] c = "9" -> 9

\* The end (exclusive) of the longest run of characters of cls starting at i
RECURSIVE RunEnd(_, _, _)
RunEnd(s, cls, i) == IF i <= Len(s) /\ Ch(s, i) \in cls THEN RunEnd(s, cls, i + 1) ELSE i

\* A pattern is a sequence of atoms: a literal, or a character class with a
\* quantifier ("+", "*", "?"); g = 1 marks the atoms of the capture group. Every
\* quantified class of the handler's patterns is followed by a character outside
\* the class (or by the end of the pattern), so greedy matching never backtracks.
Lit(str) == [k |-> "lit", s |-> str, cls |-> {}, q |-> "1", g |-> 0]
Cls(c, quant, grp) == [k |-> "cls", s |-> "", cls |-> c, q |-> quant, g |-> grp]

NoMatch == [ok |-> FALSE, cap |-> <<>>, end |-> 0]

\* The end (exclusive) of a quantified class whose longest run from i ends at r; 0: no match
ClsEnd(at, i, r) ==
  CASE at.q = "+" -> IF r > i THEN r ELSE 0
    [] at.q = "*" -> r
    [] at.q = "?" -> IF r > i THEN i + 1 ELSE i

\* The end (exclusive) of the atom at matched at position i of s; 0: no match
AtomEnd(at, s, i) ==
  IF at.k = "lit" THEN (IF StartsAt(s, at.s, i) THEN i + Len(at.s) ELSE 0)
  ELSE ClsEnd(at, i, RunEnd(s, at.cls, i))

\* Match the atoms re[j..] at position i of s; caps collects the text of each group.
RECURSIVE MatchFrom(_, _, _, _, _)

\* The atom re[j] matched s[i..e-1] (e = 0: it did not): go on with re[j+1..]
MatchStep(re, j, s, i, caps, e) ==
  IF e = 0 THEN NoMatch
  ELSE MatchFrom(re, j + 1, s, e,
                 IF re[j].g > 0 THEN [caps EXCEPT ![re[j].g] = @ \o SubSeq(s, i, e - 1)] ELSE caps)

MatchFrom(re, j, s, i, caps) ==
  IF j > Len(re) THEN [ok |-> TRUE, cap |-> caps, end |-> i]
  ELSE MatchStep(re, j, s, i, caps, AtomEnd(re[j], s, i))

\* A match m counts when it succeeded and, under a $ anchor, reached the end of s
GoodMatch(m, s, atEnd) == m.ok /\ (atEnd => m.end = Len(s) + 1)

\* The match at the least of the positions hits
FirstMatch(s, re, ngroups, hits) ==
  IF hits = {} THEN NoMatch
  ELSE MatchFrom(re, 1, s, CHOOSE i \in hits : \A k \in hits : i <= k, [g \in 1..ngroups |-> ""])

\* str.match(re): the leftmost match; ngroups capture groups; anchors as flags
RegexMatch(s, re, ngroups, atStart, atEnd) ==
  FirstMatch(s, re, ngroups,
             {i \in (IF atStart THEN {1} ELSE 1..(Len(s) + 1)) :
                GoodMatch(MatchFrom(re, 1, s, i, [g \in 1..ngroups |-> ""]), s, atEnd)})

\* m?.[1], "" standing for undefined (a capture of \d+ or \w+ is never empty)
FirstGroup(m) == IF m.ok THEN m.cap[1] ELSE ""

\* str.match(/KEY(\d+)/)?.[1]
CaptureDigits(s, key) == FirstGroup(RegexMatch(s, <<Lit(key), Cls(Digits, "+", 1)>>, 1, FALSE, FALSE))

\* str.match(/KEY(\w+)/)?.[1]
CaptureWord(s, key) == FirstGroup(RegexMatch(s, <<Lit(key), Cls(WordCh, "+", 1)>>, 1, FALSE, FALSE))

\* The integer a string of digits denotes
RECURSIVE DigitsValue(_)
DigitsValue(s) ==
  IF Len(s) = 0 THEN 0 ELSE 10 * DigitsValue(SubSeq(s, 1, Len(s) - 1)) + DigitVal(Ch(s, Len(s)))

RECURSIVE Pow10(_)
Pow10(k) == IF k = 0 THEN 1 ELSE 10 * Pow10(k - 1)

\* parseInt(s): the leading digits, NaN when there are none
ParseInt(s) ==
  LET e == RunEnd(s, Digits, 1)
  IN  IF e = 1 THEN JNaN ELSE JInt(DigitsValue(SubSeq(s, 1, e - 1)))

\* parseFloat(s): digits, an optional point, digits; NaN when there is no digit
ParseFloat(s) ==
  LET e1 == RunEnd(s, Digits, 1)
      dot == e1 <= Len(s) /\ Ch(s, e1) = "."
      e2 == IF dot THEN RunEnd(s, Digits, e1 + 1) ELSE e1
      ip == SubSeq(s, 1, e1 - 1)
      fp == IF dot THEN SubSeq(s, e1 + 1, e2 - 1) ELSE ""
  IN  IF Len(ip) = 0 /\ Len(fp) = 0 THEN JNaN
      ELSE JNum(DigitsValue(ip) * Pow10(Len(fp)) + DigitsValue(fp), Pow10(Len(fp)))

(* ---------------------------------------------------------------------- *)
(* Payloads                                                                *)
(* ---------------------------------------------------------------------- *)

TOPIC_TELEMETRY == "d02/telemetry"

\* The four subscribed topics; d02/cmd is subscribed but not handled.
Topics == {TOPIC_TELEMETRY, "d02/status", "d02/cmd", "test"}

\* JSON.parse as a table: the JSON texts the device is taken to send, and the
\* value each parses to (an object is a function from its keys; the nested bme
\* object is flattened to the keys "bme.t", "bme.p", "bme.h").
JsonTexts ==
  <<"{\"ts\":1288664,\"mode\":\"AUTO\",\"bme\":{\"t\":25.02,\"p\":997,\"h\":57.2},\"ds18b20\":[-127.00,0.00,0.00],\"soil\":[100,100,100],\"water\":[0.1,1.8],\"valve\":[0,0,0],\"pump\":[0,0]}",
    "{\"bme\":{\"t\":30,\"p\":1000,\"h\":50},\"ds18b20\":[-127,-127],\"soil\":[40,50],\"water\":[2],\"valve\":[1,0,1],\"pump\":[1,0]}",
    "{\"bme\":{\"t\":24,\"p\":990,\"h\":60},\"ds18b20\":[20,-127,23],\"soil\":[10,25],\"water\":[3,4],\"valve\":[0,1,0],\"pump\":[2,1]}",
    "{\"bme\":{\"t\":30,\"p\":1000,\"h\":50}}",
    "{\"bme\":{\"t\":24,\"p\":990,\"h\":60},\"ds18b20\":[],\"soil\":[],\"water\":[]}",
    "{\"bme\":{\"t\":\"hot\",\"p\":1000,\"h\":50}}",
    "{\"bme\":{\"t\":24,\"p\":990,\"h\":60},\"ds18b20\":5}",
    "{\"bme_t\":26,\"bme_p\":1005,\"bme_h\":55,\"ds_t\":[22,24],\"soil0\":30,\"soil1\":40,\"soil2\":50,\"water1\":5,\"water2\":7,\"pump1\":true,\"pump2\":false,\"valve1\":true,\"valve2\":false,\"valve3\":false}",
    "{\"bme_t\":26}",
    "{\"pressure\":900,\"soilTemp\":22,\"soilHumidity\":45,\"waterLevel\":8,\"airTemp\":28,\"airHumidity\":70}",
    "{\"pressure\":900,\"soilTemp\":22}",
    "{\"pressure\":900}",
    "{\"foo\":1}">>

JsonValues ==
  <<("ts" :> JInt(1288664) @@ "mode" :> JStr @@ "bme" :> JObj @@ "bme.t" :> JNum(1251, 50) @@ "bme.p" :> JInt(997) @@ "bme.h" :> JNum(286, 5) @@ "ds18b20" :> JArr(<<JInt(-127), JInt(0), JInt(0)>>) @@ "soil" :> JArr(<<JInt(100), JInt(100), JInt(100)>>) @@ "water" :> JArr(<<JNum(1, 10), JNum(9, 5)>>) @@ "valve" :> JArr(<<JInt(0), JInt(0), JInt(0)>>) @@ "pump" :> JArr(<<JInt(0), JInt(0)>>)),
    ("bme" :> JObj @@ "bme.t" :> JInt(30) @@ "bme.p" :> JInt(1000) @@ "bme.h" :> JInt(50) @@ "ds18b20" :> JArr(<<JInt(-127), JInt(-127)>>) @@ "soil" :> JArr(<<JInt(40), JInt(50)>>) @@ "water" :> JArr(<<JInt(2)>>) @@ "valve" :> JArr(<<JInt(1), JInt(0), JInt(1)>>) @@ "pump" :> JArr(<<JInt(1), JInt(0)>>)),
    ("bme" :> JObj @@ "bme.t" :> JInt(24) @@ "bme.p" :> JInt(990) @@ "bme.h" :> JInt(60) @@ "ds18b20" :> JArr(<<JInt(20), JInt(-127), JInt(23)>>) @@ "soil" :> JArr(<<JInt(10), JInt(25)>>) @@ "water" :> JArr(<<JInt(3), JInt(4)>>) @@ "valve" :> JArr(<<JInt(0), JInt(1), JInt(0)>>) @@ "pump" :> JArr(<<JInt(2), JInt(1)>>)),
    ("bme" :> JObj @@ "bme.t" :> JInt(30) @@ "bme.p" :> JInt(1000) @@ "bme.h" :> JInt(50)),
    ("bme" :> JObj @@ "bme.t" :> JInt(24) @@ "bme.p" :> JInt(990) @@ "bme.h" :> JInt(60) @@ "ds18b20" :> JArr(<<>>) @@ "soil" :> JArr(<<>>) @@ "water" :> JArr(<<>>)),
    ("bme" :> JObj @@ "bme.t" :> JStr @@ "bme.p" :> JInt(1000) @@ "bme.h" :> JInt(50)),
    ("bme" :> JObj @@ "bme.t" :> JInt(24) @@ "bme.p" :> JInt(990) @@ "bme.h" :> JInt(60) @@ "ds18b20" :> JInt(5)),
    ("bme_t" :> JInt(26) @@ "bme_p" :> JInt(1005) @@ "bme_h" :> JInt(55) @@ "ds_t" :> JArr(<<JInt(22), JInt(24)>>) @@ "soil0" :> JInt(30) @@ "soil1" :> JInt(40) @@ "soil2" :> JInt(50) @@ "water1" :> JInt(5) @@ "water2" :> JInt(7) @@ "pump1" :> JTrue @@ "pump2" :> JFalse @@ "valve1" :> JTrue @@ "valve2" :> JFalse @@ "valve3" :> JFalse),
    ("bme_t" :> JInt(26)),
    ("pressure" :> JInt(900) @@ "soilTemp" :> JInt(22) @@ "soilHumidity" :> JInt(45) @@ "waterLevel" :> JInt(8) @@ "airTemp" :> JInt(28) @@ "airHumidity" :> JInt(70)),
    ("pressure" :> JInt(900) @@ "soilTemp" :> JInt(22)),
    ("pressure" :> JInt(900)),
    ("foo" :> JInt(1))>>

JsonPayloads == {JsonTexts[i] : i \in 1..Len(JsonTexts)}

\* The README's telemetry sample (also the payload of test_mqtt_parse.js).
DocSample == JsonTexts[1]

\* Text payloads on the telemetry topic: each documented format, truncated and
\* garbled instances of it, and payloads that satisfy two matchers at once.
TextPayloads ==
  { "STM32_DATA_P701_ST21_SH52_WL12_AT26_AH62_C1",
    "STM32_DATA_P701_ST21",
    "STM32_DATA_SH52_WL12",
    "P701T21H52W12A26H62",
    "P701T21H52W12A26",
    "BME: 25.1C, 1013hPa, 65% | Soil: 60%, 58%, 62% | Water: 35.5%, 40.2% | Pompa: ON, OFF | V1: ON | V2: OFF | V3: ON",
    "BME: 25.1C | Soil: 60% | Water: 35.5%",
    "st=25,at=27,sh=65,ah=55,p=825,wl=18,c=1",
    "st=25,at=27,p=825",
    "st=25,at=27,sh=65",
    "st=x,at=27,p=825",
    "temp=25.1,hum=60,count=1",
    "status=online,uptime=145",
    "status=online",
    "hello",
    "{st=25,at=27,p=825",
    "st=25,at=27,p=825,P701_ST21",
    "BME: 31C, 1000hPa, 40% | Soil: | Water: | st=25,at=27,p=825",
    "st=25,at=27,p=825,status=online,uptime=145" }

\* Instances of the five text formats on the telemetry topic: complete ones,
\* ones with a field absent, zero or not an integer, with another counter, and
\* with characters before or after
CommaPayloads ==
  { "st=25,at=27,sh=65,ah=55,p=825,wl=18,c=1",
    "st=25,at=27,sh=65,ah=55,p=825,wl=18,c=2",
    "st=25,at=27,sh=65,ah=55,p=825,wl=18",
    "st=25,at=27,p=825",
    "st=25,at=27,sh=65,ah=55,wl=18,c=1",
    "st=x,at=27,sh=65,ah=55,p=825,wl=18",
    "st=25,at=27,sh=6.5,ah=55,p=825,wl=18",
    "st=25,at=27,sh=0,ah=55,p=825,wl=0,c=1",
    "st=0,at=27,p=825" }

PrefixedPayloads ==
  { "STM32_DATA_P701_ST21_SH52_WL12_AT26_AH62_C1",
    "STM32_DATA_P701_ST21",
    "STM32_DATA_SH52_WL12_AT26_AH62",
    "STM32_DATA_P701_SH52",
    "STM32_DATA_P701_ST21_SH52_WL0_AT26_AH62_C1",
    "P702_ST22_WL13" }

UltraPayloads ==
  { "P701T21H52W12A26H62",
    "P702T22H53W13A27H63",
    "P701T21H52W12A26",
    "xP701T21H52W12A26H62",
    "P701T21H52W12A26H62 ",
    "P701T21H52W0A26H62" }

PipePayloads ==
  { "BME: 25.1C, 1013hPa, 65% | Soil: 60%, 58%, 62% | Water: 35.5%, 40.2% | Pompa: ON, OFF | V1: ON | V2: OFF | V3: ON",
    "BME: 30C, 1000hPa, 40% | Soil: 10%, 20%, 31% | Water: 1%, 2% | Pompa: OFF, ON",
    "BME: 0C, 1000hPa, 40% | Soil: 0%, 0%, 0% | Water: 0%, 0% | Pompa: on, ON",
    "BME: 25.1C | Soil: 60% | Water: 35.5%",
    "BME: 31C, 1000hPa, 40% | Soil: 60%, 58% | Water: 35.5%, 40.2%" }

CompactPayloads ==
  { "temp=25.1,hum=60,count=1",
    "temp=0.4,hum=0,count=1",
    "temp=0,hum=60" }

FormatPayloads ==
  CommaPayloads \cup PrefixedPayloads \cup UltraPayloads \cup PipePayloads \cup CompactPayloads

\* Payloads on d02/status
StatusPayloads ==
  { "pump_irrigation=ON,pump_suction=OFF,timestamp=12345",
    "pump_irrigation=OFF",
    "pump_suction=ON",
    "pump_irrigation=",
    "status=online,uptime=145" }

\* Payloads on the test topic
TestPayloads == {"STM32_OK", DocSample}

PayloadsOn(topic) ==
  CASE topic = TOPIC_TELEMETRY -> JsonPayloads \cup TextPayloads
    [] topic = "d02/status" -> StatusPayloads
    [] topic = "test" -> TestPayloads
    [] OTHER -> {"POMPA"}

\* JSON.parse(payloadStr): the parsed value, or ok = FALSE for a SyntaxError
JsonParse(s) ==
  IF s \in JsonPayloads
  THEN [ok |-> TRUE, v |-> JsonValues[CHOOSE i \in 1..Len(JsonTexts) : JsonTexts[i] = s]]
  ELSE [ok |-> FALSE, v |-> <<>>]

\* data.key (undefined for a key the object does not have)
Get(data, key) == IF key \in DOMAIN data THEN data[key] ELSE JUndef

(* ---------------------------------------------------------------------- *)
(* The message handler: client.on('message')                               *)
(* ---------------------------------------------------------------------- *)

\* A dashboard state st is [sensors, pumps, valves, dataSource]; a handler
\* result adds the outcome: "decoded", "ignored" (a branch was taken and set
\* nothing), "unknown" (the final else), "caught" (the catch block ran) or
\* "unhandled" (the topic is not handled).
Result(sensors, pumps, valves, dataSource, outcome) ==
  [sensors |-> sensors, pumps |-> pumps, valves |-> valves,
   dataSource |-> dataSource, outcome |-> outcome]

Keep(st, outcome) == Result(st.sensors, st.pumps, st.valves, st.dataSource, outcome)

\* An object literal with the six scalar fields only (no ds_t, soil, water)
SixFields(pressure, soilTemp, soilHumidity, waterLevel, airTemp, airHumidity) ==
  [pressure |-> pressure, soilTemp |-> soilTemp, soilHumidity |-> soilHumidity,
   waterLevel |-> waterLevel, airTemp |-> airTemp, airHumidity |-> airHumidity,
   ds_t |-> JUndef, soil |-> JUndef, water |-> JUndef]

\* Fault variant of StatusTopicSet: a pump status also switches the first valve
StatusTopicSetValves(irrigationState, suctionState, st) ==
  Result(st.sensors,
         [irrigation |-> IF irrigationState # "" THEN JBool(irrigationState = "ON")
                         ELSE st.pumps.irrigation,
          suction |-> IF suctionState # "" THEN JBool(suctionState = "ON")
                      ELSE st.pumps.suction],
         [st.valves EXCEPT !.valve1 = JBool(irrigationState = "ON")], st.dataSource,
         IF irrigationState # "" \/ suctionState # "" THEN "decoded" ELSE "ignored")

\* The two setPumps updaters of the d02/status branch, each run when its marker has a word
StatusTopicSet(irrigationState, suctionState, st) ==
  Result(st.sensors,
         [irrigation |-> IF irrigationState # "" THEN JBool(irrigationState = "ON")
                         ELSE st.pumps.irrigation,
          suction |-> IF suctionState # "" THEN JBool(suctionState = "ON")
                      ELSE st.pumps.suction],
         st.valves, st.dataSource,
         IF irrigationState # "" \/ suctionState # "" THEN "decoded" ELSE "ignored")

\* topic === 'd02/status'
StatusTopicBranch(s, st) ==
  StatusTopicSet(IF Includes(s, "pump_irrigation=") THEN CaptureWord(s, "pump_irrigation=") ELSE "",
                 IF Includes(s, "pump_suction=") THEN CaptureWord(s, "pump_suction=") ELSE "",
                 st)

\* topic === 'test': the tag is set only from 'unknown' or 'awaiting-mqtt', as
\* read from the dataSource the effect closed over
TestTopicBranch(st, closureDS) ==
  IF closureDS = "unknown" \/ closureDS = "awaiting-mqtt"
  THEN Result(st.sensors, st.pumps, st.valves, "mqtt-test", "decoded")
  ELSE Keep(st, "ignored")

\* Fault variant of MeanOrZero: an empty series gives undefined
MeanOrUndefined(arr) ==
  IF arr.t = "arr" /\ Len(arr.a) > 0 THEN JDivInt(ReduceSum(arr.a), Len(arr.a)) ELSE JUndef

\* arr.length > 0 ? arr.reduce(...) / arr.length : 0
MeanOrZero(arr) ==
  IF arr.t = "arr" /\ Len(arr.a) > 0 THEN JDivInt(ReduceSum(arr.a), Len(arr.a)) ELSE JInt(0)

\* soilTemps.filter(temp => temp > -100)
ValidSoilTemps(soilTemps) == SelectSeq(soilTemps, LAMBDA temp : JGreaterInt(temp, -100))

\* Fault variant of AvgSoilTemp: the mean over every entry, fault codes included
AvgSoilTempUnfiltered(soilTemps, bmeT) ==
  IF Len(soilTemps) > 0 THEN JDivInt(ReduceSum(soilTemps), Len(soilTemps)) ELSE bmeT

\* validSoilTemps.length > 0 ? mean : data.bme.t
AvgSoilTemp(soilTemps, bmeT) ==
  LET validSoilTemps == ValidSoilTemps(soilTemps)
  IN  IF Len(validSoilTemps) > 0
      THEN JDivInt(ReduceSum(validSoilTemps), Len(validSoilTemps))
      ELSE bmeT

\* Fault variant of ChannelOn: a channel is on when its value is truthy
ChannelTruthy(arr, i) == JBool(Truthy(Index(arr, i)))

\* pumps[i] === 1, valves[i] === 1
ChannelOn(arr, i) == JBool(StrictEqOne(Index(arr, i)))

\* The nested STM32 shape: data.bme && data.bme.t !== undefined
IsStm32Json(data) == Truthy(Get(data, "bme")) /\ Get(data, "bme.t").t # "undef"

Stm32JsonBranch(data, st) ==
  LET soilTemps == JOr(Get(data, "ds18b20"), JArr(<<>>))
      soilMoisture == JOr(Get(data, "soil"), JArr(<<>>))
      waterLevels == JOr(Get(data, "water"), JArr(<<>>))
      valves == JOr(Get(data, "valve"), JArr(<<JInt(0), JInt(0), JInt(0)>>))
      pumps == JOr(Get(data, "pump"), JArr(<<JInt(0), JInt(0)>>))
      bmeT == Get(data, "bme.t")
      \* .filter on a non-array, .reduce on a string: a TypeError before any setter
      throwsEarly == soilTemps.t # "arr" \/ soilMoisture.t = "str" \/ waterLevels.t = "str"
      sensors == [pressure |-> Get(data, "bme.p"),
                  airTemp |-> bmeT,
                  airHumidity |-> Get(data, "bme.h"),
                  soilTemp |-> AvgSoilTemp(soilTemps.a, bmeT),
                  soilHumidity |-> MeanOrZero(soilMoisture),
                  waterLevel |-> MeanOrZero(waterLevels),
                  ds_t |-> soilTemps, soil |-> soilMoisture, water |-> waterLevels]
      newPumps == [irrigation |-> ChannelOn(pumps, 0), suction |-> ChannelOn(pumps, 1)]
      newValves == [valve1 |-> ChannelOn(valves, 0), valve2 |-> ChannelOn(valves, 1),
                    valve3 |-> ChannelOn(valves, 2)]
  IN  IF throwsEarly THEN Keep(st, "caught")
      \* data.bme.t.toFixed(1) in the log line throws after the four setters ran
      ELSE Result(sensors, newPumps, newValves, "stm32-json",
                  IF IsNum(bmeT) THEN "decoded" ELSE "caught")

\* The flat legacy shape: data.bme_t is truthy
LegacyJsonBranch(data, st) ==
  LET soilTemps == JOr(Get(data, "ds_t"), JArr(<<>>))
      soilMoisture == JArr(<<Get(data, "soil0"), Get(data, "soil1"), Get(data, "soil2")>>)
      waterLevels == JArr(<<Get(data, "water1"), Get(data, "water2")>>)
      sensors == [pressure |-> Get(data, "bme_p"),
                  airTemp |-> Get(data, "bme_t"),
                  airHumidity |-> Get(data, "bme_h"),
                  soilTemp |-> MeanOrZero(soilTemps),
                  soilHumidity |-> JDivInt(ReduceSum(soilMoisture.a), 3),
                  waterLevel |-> JDivInt(ReduceSum(waterLevels.a), 2),
                  ds_t |-> soilTemps, soil |-> soilMoisture, water |-> waterLevels]
  IN  IF soilTemps.t = "str" THEN Keep(st, "caught")
      ELSE Result(sensors,
                  [irrigation |-> Get(data, "pump1"), suction |-> Get(data, "pump2")],
                  [valve1 |-> Get(data, "valve1"), valve2 |-> Get(data, "valve2"),
                   valve3 |-> Get(data, "valve3")],
                  "mqtt-json-legacy", "decoded")

\* The simple shape: pressure and soilTemp are numbers; each field ?? prev
SimpleJsonBranch(data, st) ==
  LET prev == st.sensors
  IN  Result(SixFields(JNullish(Get(data, "pressure"), prev.pressure),
                       JNullish(Get(data, "soilTemp"), prev.soilTemp),
                       JNullish(Get(data, "soilHumidity"), prev.soilHumidity),
                       JNullish(Get(data, "waterLevel"), prev.waterLevel),
                       JNullish(Get(data, "airTemp"), prev.airTemp),
                       JNullish(Get(data, "airHumidity"), prev.airHumidity)),
             st.pumps, st.valves, "mqtt-json-simple", "decoded")

\* payloadStr.startsWith('{'): JSON.parse, then the three shapes in order
JsonBranch(s, st) ==
  LET parsed == JsonParse(s)
      data == parsed.v
  IN  IF ~parsed.ok THEN Keep(st, "caught")
      ELSE IF IsStm32Json(data) THEN Stm32JsonBranch(data, st)
      ELSE IF Truthy(Get(data, "bme_t")) THEN LegacyJsonBranch(data, st)
      ELSE IF IsNum(Get(data, "pressure")) /\ IsNum(Get(data, "soilTemp"))
           THEN SimpleJsonBranch(data, st)
      ELSE Keep(st, "ignored")

\* Fault variant of IntOrPrev: a capture that is present is written whatever it parses to
IntWhenPresent(x, prev) == IF x = "" THEN prev ELSE ParseInt(x)

\* parseInt(x || '0') || prev, for a capture x ("" when the group did not match)
IntOrPrev(x, prev) == JOr(ParseInt(IF x = "" THEN "0" ELSE x), prev)

\* The six positional captures merged over the previous sensors
MergeCaptures(prev, pressure, soilTemp, soilHumidity, waterLevel, airTemp, airHumidity) ==
  SixFields(IntOrPrev(pressure, prev.pressure), IntOrPrev(soilTemp, prev.soilTemp),
            IntOrPrev(soilHumidity, prev.soilHumidity), IntOrPrev(waterLevel, prev.waterLevel),
            IntOrPrev(airTemp, prev.airTemp), IntOrPrev(airHumidity, prev.airHumidity))

\* "STM32_DATA_P701_ST21_SH52_WL12_AT26_AH62_C1"
IsStm32Simple(s) == Includes(s, "STM32_DATA_") \/ (Includes(s, "P") /\ Includes(s, "_"))

\* Fault variant of Stm32SimpleSet: the setters run without the pressure && soilTemp guard
Stm32SimpleSetUnguarded(pressure, soilTemp, soilHumidity, waterLevel, airTemp, airHumidity, st) ==
  Result(MergeCaptures(st.sensors, pressure, soilTemp, soilHumidity, waterLevel,
                       airTemp, airHumidity),
         st.pumps, st.valves, "stm32-simple", "decoded")

\* if (pressure && soilTemp) { setSensors(...); setDataSource('stm32-simple') }
Stm32SimpleSet(pressure, soilTemp, soilHumidity, waterLevel, airTemp, airHumidity, st) ==
  IF pressure # "" /\ soilTemp # ""
  THEN Result(MergeCaptures(st.sensors, pressure, soilTemp, soilHumidity, waterLevel,
                            airTemp, airHumidity),
              st.pumps, st.valves, "stm32-simple", "decoded")
  ELSE Keep(st, "ignored")

Stm32SimpleCaptures(cleanData, st) ==
  Stm32SimpleSet(CaptureDigits(cleanData, "P"), CaptureDigits(cleanData, "ST"),
                 CaptureDigits(cleanData, "SH"), CaptureDigits(cleanData, "WL"),
                 CaptureDigits(cleanData, "AT"), CaptureDigits(cleanData, "AH"), st)

Stm32SimpleBranch(s, st) == Stm32SimpleCaptures(RemoveFirst(s, "STM32_DATA_"), st)

\* /^P\d+T\d+H\d+W\d+A\d+H\d+$/
UltraRe ==
  <<Lit("P"), Cls(Digits, "+", 0), Lit("T"), Cls(Digits, "+", 0), Lit("H"), Cls(Digits, "+", 0),
    Lit("W"), Cls(Digits, "+", 0), Lit("A"), Cls(Digits, "+", 0), Lit("H"), Cls(Digits, "+", 0)>>

IsStm32Ultra(s) == RegexMatch(s, UltraRe, 0, TRUE, TRUE).ok

\* if (pressure && soilTemp) { setSensors(...); setDataSource('stm32-ultra') }
Stm32UltraSet(pressure, soilTemp, soilHumidity, waterLevel, airTemp, airHumidity, st) ==
  IF pressure # "" /\ soilTemp # ""
  THEN Result(MergeCaptures(st.sensors, pressure, soilTemp, soilHumidity, waterLevel,
                            airTemp, airHumidity),
              st.pumps, st.valves, "stm32-ultra", "decoded")
  ELSE Keep(st, "ignored")

\* The last capture is /H(\d+)$/: the H that ends the payload
Stm32UltraBranch(s, st) ==
  Stm32UltraSet(CaptureDigits(s, "P"), CaptureDigits(s, "T"), CaptureDigits(s, "H"),
                CaptureDigits(s, "W"), CaptureDigits(s, "A"),
                FirstGroup(RegexMatch(s, <<Lit("H"), Cls(Digits, "+", 1)>>, 1, FALSE, TRUE)), st)

\* "BME: 25.1C, 1013hPa, 65% | Soil: 60%, 58%, 62% | Water: 35.5%, 40.2% | Pompa: ON, OFF"
IsBme280(s) == Includes(s, "BME:") /\ Includes(s, "Soil:") /\ Includes(s, "Water:")

BmeRe ==
  <<Lit("BME:"), Cls(SpaceCh, "*", 0), Cls(DigitsDot, "+", 1), Lit("C,"),
    Cls(SpaceCh, "*", 0), Cls(DigitsDot, "+", 2), Lit("hPa,"),
    Cls(SpaceCh, "*", 0), Cls(DigitsDot, "+", 3), Lit("%")>>

SoilRe ==
  <<Lit("Soil:"), Cls(SpaceCh, "*", 0), Cls(Digits, "+", 1), Lit("%,"),
    Cls(SpaceCh, "*", 0), Cls(Digits, "+", 2), Lit("%,"),
    Cls(SpaceCh, "*", 0), Cls(Digits, "+", 3), Lit("%")>>

WaterRe ==
  <<Lit("Water:"), Cls(SpaceCh, "*", 0), Cls(DigitsDot, "+", 1), Lit("%,"),
    Cls(SpaceCh, "*", 0), Cls(DigitsDot, "+", 2), Lit("%")>>

PompaRe ==
  <<Lit("Pompa:"), Cls(SpaceCh, "*", 0), Cls(WordCh, "+", 1), Lit(","),
    Cls(SpaceCh, "*", 0), Cls(WordCh, "+", 2)>>

\* Math.round((soil1 + soil2 + soil3) / 3), 0 without a Soil match
AvgSoilHumidity(soilMatch) ==
  IF soilMatch.ok
  THEN JRound(JDivInt(JAdd(JAdd(ParseInt(soilMatch.cap[1]), ParseInt(soilMatch.cap[2])),
                           ParseInt(soilMatch.cap[3])), 3))
  ELSE JInt(0)

\* Math.round((water1 + water2) / 2), 0 without a Water match
AvgWaterLevel(waterMatch) ==
  IF waterMatch.ok
  THEN JRound(JDivInt(JAdd(ParseFloat(waterMatch.cap[1]), ParseFloat(waterMatch.cap[2])), 2))
  ELSE JInt(0)

\* setSensors(prev => ...), setPumps, setDataSource('stm32-bme280')
Bme280Set(airTemp, pressure, airHumidity, avgSoilHumidity, avgWaterLevel, pompaMatch, st) ==
  Result(SixFields(JOr(pressure, st.sensors.pressure), JOr(airTemp, st.sensors.soilTemp),
                   JOr(avgSoilHumidity, st.sensors.soilHumidity),
                   JOr(avgWaterLevel, st.sensors.waterLevel),
                   JOr(airTemp, st.sensors.airTemp), JOr(airHumidity, st.sensors.airHumidity)),
         IF pompaMatch.ok
         THEN [irrigation |-> JBool(pompaMatch.cap[1] = "ON"),
               suction |-> JBool(pompaMatch.cap[2] = "ON")]
         ELSE st.pumps,
         st.valves, "stm32-bme280", "decoded")

\* if (bmeMatch) { ... }
Bme280Matches(bmeMatch, soilMatch, waterMatch, pompaMatch, st) ==
  IF bmeMatch.ok
  THEN Bme280Set(ParseFloat(bmeMatch.cap[1]), ParseFloat(bmeMatch.cap[2]),
                 ParseFloat(bmeMatch.cap[3]), AvgSoilHumidity(soilMatch),
                 AvgWaterLevel(waterMatch), pompaMatch, st)
  ELSE Keep(st, "ignored")

Bme280Branch(s, st) ==
  Bme280Matches(RegexMatch(s, BmeRe, 3, FALSE, FALSE), RegexMatch(s, SoilRe, 3, FALSE, FALSE),
                RegexMatch(s, WaterRe, 2, FALSE, FALSE), RegexMatch(s, PompaRe, 2, FALSE, FALSE), st)

\* "st=25,at=27,sh=65,ah=55,p=825,wl=18,c=1"
IsComprehensive(s) == Includes(s, "st=") /\ Includes(s, "at=") /\ Includes(s, "p=")

\* Fault variant of ComprehensiveSet: all six captures are required
ComprehensiveSetAllSix(soilTemp, airTemp, soilHum, airHum, pressure, waterLevel, st) ==
  IF soilTemp # "" /\ airTemp # "" /\ pressure # "" /\ soilHum # "" /\ airHum # ""
     /\ waterLevel # ""
  THEN Result(MergeCaptures(st.sensors, pressure, soilTemp, soilHum, waterLevel, airTemp, airHum),
              st.pumps, st.valves, "stm32-comprehensive", "decoded")
  ELSE Keep(st, "ignored")

\* if (soilTemp && airTemp && pressure) { setSensors(...); setDataSource('stm32-comprehensive') }
ComprehensiveSet(soilTemp, airTemp, soilHum, airHum, pressure, waterLevel, st) ==
  IF soilTemp # "" /\ airTemp # "" /\ pressure # ""
  THEN Result(MergeCaptures(st.sensors, pressure, soilTemp, soilHum, waterLevel, airTemp, airHum),
              st.pumps, st.valves, "stm32-comprehensive", "decoded")
  ELSE Keep(st, "ignored")

ComprehensiveBranch(s, st) ==
  ComprehensiveSet(CaptureDigits(s, "st="), CaptureDigits(s, "at="), CaptureDigits(s, "sh="),
                   CaptureDigits(s, "ah="), CaptureDigits(s, "p="), CaptureDigits(s, "wl="), st)

\* "temp=25.1,hum=60,count=1"
IsCompact(s) == Includes(s, "temp=") /\ Includes(s, "hum=")

\* /temp=(\d+\.?\d*)/
TempRe == <<Lit("temp="), Cls(Digits, "+", 1), Cls({"."}, "?", 1), Cls(Digits, "*", 1)>>

\* if (temp && hum) { setSensors(...); setDataSource('stm32-compact') }; t is
\* Math.round(parseFloat(temp)) and h is parseInt(hum)
CompactSet(temp, hum, t, h, st) ==
  IF temp # "" /\ hum # ""
  THEN Result(SixFields(st.sensors.pressure, JOr(t, st.sensors.soilTemp),
                        JOr(h, st.sensors.soilHumidity), st.sensors.waterLevel,
                        JOr(t, st.sensors.airTemp), JOr(h, st.sensors.airHumidity)),
              st.pumps, st.valves, "stm32-compact", "decoded")
  ELSE Keep(st, "ignored")

CompactCaptures(temp, hum, st) == CompactSet(temp, hum, JRound(ParseFloat(temp)), ParseInt(hum), st)

CompactBranch(s, st) ==
  CompactCaptures(FirstGroup(RegexMatch(s, TempRe, 1, FALSE, FALSE)), CaptureDigits(s, "hum="), st)

\* "status=online,uptime=145"
IsStatus(s) == Includes(s, "status=") /\ Includes(s, "uptime=")

StatusBranch(s, st, closureDS) ==
  IF CaptureWord(s, "status=") # "" /\ CaptureDigits(s, "uptime=") # ""
     /\ closureDS # "stm32-comprehensive" /\ closureDS # "stm32-compact"
  THEN Result(st.sensors, st.pumps, st.valves, "stm32-status", "decoded")
  ELSE Keep(st, "ignored")

\* Fault variant of FormatChain: the chain in the order JSON, comma key=value,
\* pipe summary, prefixed positional, ultra-short, compact, status
FormatChainDocumented(s, st, closureDS) ==
  IF StartsWith(s, "{") THEN JsonBranch(s, st)
  ELSE IF IsComprehensive(s) THEN ComprehensiveBranch(s, st)
  ELSE IF IsBme280(s) THEN Bme280Branch(s, st)
  ELSE IF IsStm32Simple(s) THEN Stm32SimpleBranch(s, st)
  ELSE IF IsStm32Ultra(s) THEN Stm32UltraBranch(s, st)
  ELSE IF IsCompact(s) THEN CompactBranch(s, st)
  ELSE IF IsStatus(s) THEN StatusBranch(s, st, closureDS)
  ELSE Keep(st, "unknown")

\* The if / else-if chain over the payload, in the order of the code
FormatChain(s, st, closureDS) ==
  IF StartsWith(s, "{") THEN JsonBranch(s, st)
  ELSE IF IsStm32Simple(s) THEN Stm32SimpleBranch(s, st)
  ELSE IF IsStm32Ultra(s) THEN Stm32UltraBranch(s, st)
  ELSE IF IsBme280(s) THEN Bme280Branch(s, st)
  ELSE IF IsComprehensive(s) THEN ComprehensiveBranch(s, st)
  ELSE IF IsCompact(s) THEN CompactBranch(s, st)
  ELSE IF IsStatus(s) THEN StatusBranch(s, st, closureDS)
  ELSE Keep(st, "unknown")

\* client.on('message', (topic, payload) => ...)
MessageHandler(topic, s, st, closureDS) ==
  IF topic \in {TOPIC_TELEMETRY, "d02/status", "d02/telemetry", "test"}
  THEN IF topic = "d02/status" THEN StatusTopicBranch(s, st)
       ELSE IF topic = "test" THEN TestTopicBranch(st, closureDS)
       ELSE FormatChain(s, st, closureDS)
  ELSE Keep(st, "unhandled")

(* ---------------------------------------------------------------------- *)
(* Commands: controlPump, publishPumpControl and the relay route           *)
(* ---------------------------------------------------------------------- *)

LowerSeq == <<"a", "b", "c", "d", "e", "f", "g", "h", "i", "j", "k", "l", "m",
              "n", "o", "p", "q", "r", "s", "t", "u", "v", "w", "x", "y", "z">>
UpperSeq == <<"A", "B", "C", "D", "E", "F", "G", "H", "I", "J", "K", "L", "M",
              "N", "O", "P", "Q", "R", "S", "T", "U", "V", "W", "X", "Y", "Z">>

UpperCh(c) == IF c \in Lower THEN UpperSeq[CHOOSE i \in 1..Len(LowerSeq) : LowerSeq[i] = c] ELSE c

\* s.toUpperCase()
RECURSIVE ToUpperCase(_)
ToUpperCase(s) ==
  IF Len(s) = 0 THEN "" ELSE ToUpperCase(SubSeq(s, 1, Len(s) - 1)) \o UpperCh(Ch(s, Len(s)))

\* The command words the device documents on d02/cmd
Vocabulary == {"POMPA", "SEDOT", "STOP", "AUTO", "RESUME"}

\* The names the five buttons pass to controlPump
ButtonTypes == {"pompa", "sedot", "stop", "auto", "resume"}

\* duration_seconds of the fallback request, and ManualControl's default duration
FallbackDuration == 300
DefaultDuration == 300

\* How the relay route's own broker session fares
BrokerOutcomes == {"published", "publish-error", "connect-error", "timeout"}

\* A response: kind "response" with its status, the success field of its
\* body and the payload the route published ("": none); kind "network-error"
\* for a fetch that rejects; kind "none" while there is none.
Response(status, success, payload) ==
  [kind |-> "response", status |-> status, success |-> success, payload |-> payload]
NetworkError == [kind |-> "network-error", status |-> 0, success |-> FALSE, payload |-> ""]
NoResponse == [kind |-> "none", status |-> 0, success |-> FALSE, payload |-> ""]

\* The payload the route formats for the upper-cased command cmd
RoutePayload(cmd, duration_seconds) ==
  IF cmd = "START" \/ cmd = "POMPA"
  THEN (IF duration_seconds > 0 THEN "POMPA:" \o ToString(duration_seconds) ELSE "POMPA")
  ELSE IF cmd = "STOP" THEN "STOP"
  ELSE cmd

\* POST /api/pump with body {command, duration_seconds}
PumpRoute(command, duration_seconds, broker) ==
  IF ToUpperCase(command) \notin {"START", "STOP", "POMPA", "SEDOT"}
  THEN Response(400, FALSE, "")
  ELSE IF broker = "published"
  THEN Response(200, TRUE, RoutePayload(ToUpperCase(command), duration_seconds))
  ELSE Response(500, FALSE, "")

\* The request to the relay route before it has arrived
NoRoute ==
  [pc |-> "idle", command |-> "", duration |-> 0, session |-> "none", connected |-> FALSE,
   timer |-> "none", promise |-> "pending", inflight |-> FALSE, acked |-> FALSE,
   published |-> 0, payload |-> "", answers |-> 0, answer |-> NoResponse]

\* The commands and durations of the requests to the route
RouteCommands == {"START", "STOP", "POMPA", "SEDOT", "pompa", "AUTO", ""}
RouteDurations == {0, FallbackDuration}

\* NextResponse.json(...): the request is answered
RouteAnswer(r, resp) == [r EXCEPT !.pc = "answered", !.answers = @ + 1, !.answer = resp]

\* resolve / reject: a promise settles once, later calls do nothing
Settle(r, how) == IF r.promise = "pending" THEN [r EXCEPT !.promise = how] ELSE r

\* POST up to the await of publishPromise: an invalid command is answered
\* with 400; otherwise the throwaway session is opened (mqtt.connect) and the
\* 10-second timer is armed
RouteBegin(command, duration_seconds) ==
  IF ToUpperCase(command) \notin {"START", "STOP", "POMPA", "SEDOT"}
  THEN RouteAnswer([NoRoute EXCEPT !.command = command, !.duration = duration_seconds],
                   Response(400, FALSE, ""))
  ELSE [NoRoute EXCEPT !.pc = "await", !.command = command, !.duration = duration_seconds,
                       !.session = "open", !.timer = "armed"]

\* Fault variant of RouteOnTimeout: the timer rejects and leaves the session open
RouteOnTimeoutOpen(r) == Settle([r EXCEPT !.timer = "fired"], "rejected")

\* The timer's callback: client.end(true); reject(new Error('MQTT publish timeout'))
RouteOnTimeout(r) == Settle([r EXCEPT !.timer = "fired", !.session = "ended"], "rejected")

\* client.on('connect'): the payload is formatted and published with qos 1
RouteOnConnect(r) ==
  [r EXCEPT !.connected = TRUE, !.inflight = TRUE, !.published = @ + 1,
            !.payload = RoutePayload(ToUpperCase(r.command), r.duration)]

\* clearTimeout(timeout)
ClearTimeout(r) == IF r.timer = "armed" THEN [r EXCEPT !.timer = "cleared"] ELSE r

\* The completion callback of client.publish: clearTimeout, client.end(true),
\* then reject(err), or the audit insert is awaited before the resolve
RouteOnPublished(r, err) ==
  LET e == [ClearTimeout(r) EXCEPT !.inflight = FALSE, !.session = "ended"]
  IN  IF err THEN Settle(e, "rejected") ELSE [e EXCEPT !.acked = TRUE, !.pc = "insert"]

\* The insert has settled (saved or not): resolve({success: true, ...})
RouteOnInserted(r) == Settle([r EXCEPT !.pc = "await"], "resolved")

\* client.on('error'): clearTimeout, client.end(true), reject(err)
RouteOnError(r) == Settle([ClearTimeout(r) EXCEPT !.session = "ended"], "rejected")

\* The continuation of await publishPromise: the result is returned, or the
\* catch block answers with 500
RouteReturn(r) ==
  RouteAnswer(r, IF r.promise = "resolved" THEN Response(200, TRUE, r.payload)
                 ELSE Response(500, FALSE, ""))

\* response.ok
ResponseOk(resp) == resp.kind = "response" /\ resp.status >= 200 /\ resp.status <= 299

\* publishPumpControl(type) on the session cl; throws: client.publish throws.
\* The result is the returned boolean, the payload handed to the session and
\* whether the catch branch ran.
PublishPumpControl(type, cl, throws) ==
  IF ~cl.exists THEN [sent |-> FALSE, payload |-> "", threw |-> FALSE]
  ELSE IF ~cl.connected THEN [sent |-> FALSE, payload |-> "", threw |-> FALSE]
  ELSE IF throws THEN [sent |-> FALSE, payload |-> "", threw |-> TRUE]
  ELSE [sent |-> TRUE, payload |-> ToUpperCase(type), threw |-> FALSE]

\* pumpType of the audit row
AuditPumpType(type) ==
  IF type = "pompa" THEN "irrigation" ELSE IF type = "sedot" THEN "suction" ELSE "unknown"

\* The row controlPump inserts into pump_commands
AuditRow(type) ==
  [command |-> ToUpperCase(type), pump_type |-> AuditPumpType(type), source |-> "manual"]
NoRow == [command |-> "", pump_type |-> "", source |-> ""]

\* The optimistic update of controlPump: which branch runs, and the pumps it leaves
OptimisticBranch(type) ==
  IF type = "pompa" THEN "irrigation-on"
  ELSE IF type = "sedot" THEN "suction-on"
  ELSE IF type = "stop" THEN "both-off"
  ELSE "none"

OptimisticPumps(type, p) ==
  IF type = "pompa" THEN [p EXCEPT !.irrigation = JTrue]
  ELSE IF type = "sedot" THEN [p EXCEPT !.suction = JTrue]
  ELSE IF type = "stop" THEN [irrigation |-> JFalse, suction |-> JFalse]
  ELSE p

\* Fault variant of ContinueDispatch: an exception thrown by the audit insert ends the dispatch
ContinueDispatchUnlessThrown(type, outcome, pub) ==
  IF outcome = "throw"
  THEN [sent |-> TRUE, live |-> "", update |-> "none", threw |-> FALSE, pc |-> "done"]
  ELSE [sent |-> pub.sent, live |-> pub.payload, update |-> OptimisticBranch(type),
        threw |-> pub.threw, pc |-> IF pub.sent THEN "published" ELSE "relay"]

\* controlPump after the audit insert has settled with outcome ("ok", "error"
\* or "throw"): pub is the result of publishPumpControl; the optimistic update
\* runs; the relay is asked when the publish did not go out, and when it did
\* the call returns with the completion callback of the publish still to come.
ContinueDispatch(type, outcome, pub) ==
  [sent |-> pub.sent, live |-> pub.payload, update |-> OptimisticBranch(type),
   threw |-> pub.threw, pc |-> IF pub.sent THEN "published" ELSE "relay"]

\* setPumps(prev => ({...prev, [type === 'pompa' ? 'irrigation' : 'suction']: true}))
RelayPumps(type, p) ==
  IF type = "pompa" THEN [p EXCEPT !.irrigation = JTrue] ELSE [p EXCEPT !.suction = JTrue]

\* Fault variant of HandleRelay: any response with success = true counts, OK or not,
\* and a response without it is not reported
HandleRelayTrusting(type, resp, p) ==
  IF resp.kind = "response"
  THEN [pumps |-> RelayPumps(type, p), report |-> "success"]
  ELSE [pumps |-> p, report |-> "failure"]

\* controlPump on the answer of the relay: the pumps it leaves and what the
\* operator is told ("success": the relay's message; "failure": Control failed
\* or API Error)
HandleRelay(type, resp, p) ==
  IF ~ResponseOk(resp) THEN [pumps |-> p, report |-> "failure"]
  ELSE IF resp.success THEN [pumps |-> RelayPumps(type, p), report |-> "success"]
  ELSE [pumps |-> p, report |-> "failure"]

\* The number of controlPump calls in one run of the model
MaxDispatches == 2

(* ---------------------------------------------------------------------- *)
(* The session effect: set-up, subscriptions; the fallback poll            *)
(* ---------------------------------------------------------------------- *)

\* Fault variant of DefaultBroker: the insecure default whatever the page protocol
DefaultBrokerInsecure(isSecure) == "ws://test.mosquitto.org:8080"

\* isSecure ? 'wss://test.mosquitto.org:8081' : 'ws://test.mosquitto.org:8080'
DefaultBroker(isSecure) ==
  IF isSecure THEN "wss://test.mosquitto.org:8081" ELSE "ws://test.mosquitto.org:8080"

\* process.env.NAME || fallback; "" stands for an unset variable as well (both are falsy)
EnvOr(value, fallback) == IF value # "" THEN value ELSE fallback

\* The lines the effect logs and the connection it opens, in their order
EffectLog(isSecure, url) ==
  <<"connecting">>
  \o (IF isSecure /\ StartsWith(url, "ws://") THEN <<"warning">> ELSE <<>>)
  \o <<"connect">>

\* The effect before it has run on a page with the given protocol and override
BeforeEffect(protocol, override) ==
  [protocol |-> protocol, override |-> override, pc |-> "start", url |-> "", log |-> <<>>]

\* The outcome of the set-up for the URL chosen
EffectOutcome(protocol, override, url) ==
  [protocol |-> protocol, override |-> override, pc |-> "connected", url |-> url,
   log |-> EffectLog(protocol = "https:", url)]

\* The set-up of the session effect up to mqtt.connect(MQTT_WS_URL, clientOptions)
SessionEffect(protocol, override) ==
  EffectOutcome(protocol, override, EnvOr(override, DefaultBroker(protocol = "https:")))

\* window.location.protocol and NEXT_PUBLIC_MQTT_BROKER_URL, as the page may have them
Protocols == {"http:", "https:", "file:", "about:"}
Overrides ==
  { "", "ws://test.mosquitto.org:8080", "wss://test.mosquitto.org:8081",
    "ws://broker.local:9001", "wss://broker.local:9001", "mqtt://broker.local:1883",
    "WS://broker.local:9001", "ws://", "wss://", "ws:/broker.local", "wss",
    "http://broker.local", "broker.local:9001" }

\* The topics the connect handler subscribes to, in the order of its array
ConnectTopics == <<TOPIC_TELEMETRY, "d02/status", "d02/cmd", "test">>

\* The subscriptions before any connect event: per topic how the latest request
\* fared ("none", "pending", "granted", "failed") and how many requests the
\* latest connect event issued; priorFailed: a request had failed when the
\* latest connect event came
NoSubs ==
  [state |-> [t \in Topics |-> "none"], requests |-> [t \in Topics |-> 0], priorFailed |-> FALSE]

\* client.subscribe(topic, { qos: 1 }, callback)
Subscribe(topic, sb) == [sb EXCEPT !.state[topic] = "pending", !.requests[topic] = @ + 1]

\* topics.forEach(topic => client.subscribe(...))
RECURSIVE ForEachSubscribe(_, _)
ForEachSubscribe(topics, sb) ==
  IF topics = <<>> THEN sb ELSE ForEachSubscribe(Tail(topics), Subscribe(Head(topics), sb))

\* The connect event begins with no request issued
BeginConnect(prior) ==
  [state |-> prior.state, requests |-> [t \in Topics |-> 0],
   priorFailed |-> \E t \in Topics : prior.state[t] = "failed"]

\* Fault variant of SubscribeAll: only the topics not yet granted are requested
SubscribeMissing(topics, prior) ==
  ForEachSubscribe(SelectSeq(topics, LAMBDA t : prior.state[t] # "granted"), BeginConnect(prior))

\* The subscriptions after the connect handler has run over the prior ones
SubscribeAll(topics, prior) == ForEachSubscribe(topics, BeginConnect(prior))

\* What GET /api/sensors can answer: the route of this repository (six numbers
\* drawn from its ranges, nothing else), a backend that also reports pumps, a
\* data source and its own broker flag, or no answer (ok = FALSE: fetch or
\* response.json() rejects). data_source "" and mqtt_connected JUndef: absent.
PollAnswers ==
  { [ok |-> TRUE, sensors |-> SixFields(JInt(700), JInt(30), JInt(60), JInt(10), JInt(30), JInt(60)),
     hasPumps |-> FALSE, pumps |-> [irrigation |-> JFalse, suction |-> JFalse],
     data_source |-> "", mqtt_connected |-> JUndef],
    [ok |-> TRUE, sensors |-> SixFields(JInt(899), JInt(39), JInt(89), JInt(29), JInt(39), JInt(89)),
     hasPumps |-> TRUE, pumps |-> [irrigation |-> JTrue, suction |-> JFalse],
     data_source |-> "fallback", mqtt_connected |-> JTrue],
    [ok |-> FALSE, sensors |-> SixFields(JUndef, JUndef, JUndef, JUndef, JUndef, JUndef),
     hasPumps |-> FALSE, pumps |-> [irrigation |-> JFalse, suction |-> JFalse],
     data_source |-> "", mqtt_connected |-> JUndef] }

\* fetchSensorData once the fetch has settled: the setters it calls on the
\* dashboard state st and on the connected flag
FetchSensorData(answer, st, connected) ==
  IF answer.ok
  THEN [sensors |-> answer.sensors,
        pumps |-> IF answer.hasPumps THEN answer.pumps ELSE st.pumps,
        dataSource |-> EnvOr(answer.data_source, "unknown"),
        mqttConnected |-> Truthy(JOr(answer.mqtt_connected, JFalse))]
  ELSE [sensors |-> st.sensors, pumps |-> st.pumps, dataSource |-> "awaiting-mqtt",
        mqttConnected |-> connected]

\* The number of fetchSensorData calls in one run of the model
MaxPolls == 2

(* ---------------------------------------------------------------------- *)
(* The handler, tabulated                                                  *)
(* ---------------------------------------------------------------------- *)

\* The handler only copies previous values (prev.x, ...prev, an untouched
\* state), it never computes with them. So it is evaluated once per topic,
\* payload and closed-over tag on a state of placeholders, and the placeholders
\* are replaced by the values of the state at hand.
Prev(i) == [t |-> "prev", n |-> i, d |-> 1, a |-> <<>>]

PrevState ==
  [sensors |-> [pressure |-> Prev(1), soilTemp |-> Prev(2), soilHumidity |-> Prev(3),
                waterLevel |-> Prev(4), airTemp |-> Prev(5), airHumidity |-> Prev(6),
                ds_t |-> Prev(7), soil |-> Prev(8), water |-> Prev(9)],
   pumps |-> [irrigation |-> Prev(10), suction |-> Prev(11)],
   valves |-> [valve1 |-> Prev(12), valve2 |-> Prev(13), valve3 |-> Prev(14)],
   dataSource |-> "prev"]

PrevValue(i, st) ==
  CASE i = 1 -> st.sensors.pressure [] i = 2 -> st.sensors.soilTemp
    [] i = 3 -> st.sensors.soilHumidity [] i = 4 -> st.sensors.waterLevel
    [] i = 5 -> st.sensors.airTemp [] i = 6 -> st.sensors.airHumidity
    [] i = 7 -> st.sensors.ds_t [] i = 8 -> st.sensors.soil [] i = 9 -> st.sensors.water
    [] i = 10 -> st.pumps.irrigation [] i = 11 -> st.pumps.suction
    [] i = 12 -> st.valves.valve1 [] i = 13 -> st.valves.valve2 [] i = 14 -> st.valves.valve3

Fill(v, st) == IF v.t = "prev" THEN PrevValue(v.n, st) ELSE v

\* The data-source tags the dashboard sets
Tags ==
  {"unknown", "awaiting-mqtt", "mqtt-test", "stm32-json", "mqtt-json-legacy",
   "mqtt-json-simple", "stm32-simple", "stm32-ultra", "stm32-bme280",
   "stm32-comprehensive", "stm32-compact", "stm32-status"}

AllPayloads ==
  JsonPayloads \cup TextPayloads \cup FormatPayloads \cup StatusPayloads \cup TestPayloads
  \cup {"POMPA"}

HandlerTable ==
  [k \in Topics \X AllPayloads \X Tags |-> MessageHandler(k[1], k[2], PrevState, k[3])]

\* A tabulated result r with its placeholders filled from the state st
FillResult(r, st) ==
  [sensors |-> [f \in DOMAIN r.sensors |-> Fill(r.sensors[f], st)],
   pumps |-> [f \in DOMAIN r.pumps |-> Fill(r.pumps[f], st)],
   valves |-> [f \in DOMAIN r.valves |-> Fill(r.valves[f], st)],
   dataSource |-> IF r.dataSource = "prev" THEN st.dataSource ELSE r.dataSource,
   outcome |-> r.outcome,
   \* the handler set a pump from the message: the message carries pump state
   setsPumps |-> \E f \in DOMAIN r.pumps : r.pumps[f].t # "prev"]

\* The handler applied to the state st
Handle(topic, s, st, closureDS) == FillResult(HandlerTable[<<topic, s, closureDS>>], st)

\* The number of messages handled in one run of the model
MaxMessages == 2

(* ---------------------------------------------------------------------- *)
(* State                                                                   *)
(* ---------------------------------------------------------------------- *)

VARIABLES
  sensors,        \* useState<Sensors>
  pumps,          \* useState<Pumps>
  valves,         \* useState<Valves>
  dataSource,     \* useState<string>: the data-source tag
  mqttConnected,  \* useState<boolean>
  mqttStatus,     \* useState<string>
  client,         \* mqttClientRef.current: [exists, connected, closureDS, original],
                  \* closureDS being the dataSource its message handler closed over,
                  \* original whether it is the session opened at mount
  handled,        \* how many messages have been handled
  last,           \* history: the last message or command step, what it did and the
                  \* state before it
  dispatch,       \* the controlPump calls: [pc, type, row], pc being "idle", "audit"
                  \* (awaiting the insert), "relay" (awaiting the fetch), "published"
                  \* (returned, the completion callback of the publish to come) or "done"
  subs,           \* the subscriptions of the session: per topic the requests the
                  \* latest connect event issued and how the latest request fared
  telemetry,      \* history: the pump state of the last message that carried one,
                  \* seen until the next command is issued
  boot,           \* the inputs and the outcome of the session effect's set-up
  poll,           \* fetchSensorData: how many calls were started, how many are in flight
  ended,          \* a session ended by the cleanup can still emit its events
  route           \* one request to the pump relay route: where its handler is, its
                  \* broker session, timer and promise, what it published and answered

vars ==
  <<sensors, pumps, valves, dataSource, mqttConnected, mqttStatus, client, handled, last,
    dispatch, subs, telemetry, boot, poll, ended, route>>

\* The dashboard state the handler reads and writes
Current == [sensors |-> sensors, pumps |-> pumps, valves |-> valves, dataSource |-> dataSource]

InitSensors == SixFields(JInt(825), JInt(25), JInt(70), JInt(10), JInt(27), JInt(65))
InitPumps == [irrigation |-> JFalse, suction |-> JFalse]
InitValves == [valve1 |-> JFalse, valve2 |-> JFalse, valve3 |-> JFalse]

\* No message has carried pump state; no fetchSensorData call has been made
NoTelemetry == [seen |-> FALSE, pumps |-> InitPumps]
NoPoll == [started |-> 0, inflight |-> 0]

\* A controlPump call that has not been made
Idle == [pc |-> "idle", type |-> "", row |-> NoRow]

\* No message on d02/cmd; a message is [path, name, payload]: the path it took
\* ("live" or "relay"), the command name asked for and the payload published
NothingPublished == [path |-> "", name |-> "", payload |-> ""]

InitState ==
  [sensors |-> InitSensors, pumps |-> InitPumps, valves |-> InitValves, dataSource |-> "unknown"]

\* The history record before any step: event names the step ("message",
\* "auditSettled", "relayResponded", "sendPumpCommand", "testPublish"), id the
\* controlPump call, topic and payload the message (payload: the command name
\* for a command step), closureDS the tag the handler closed over, outcome the
\* handler's outcome or the outcome of the audit insert, session the session
\* as publishPumpControl found it, sent its result, update the optimistic
\* branch, response the relay's answer, report what the operator is told,
\* published the message put on d02/cmd, before the dashboard state before.
NoStep ==
  [event |-> "none", id |-> 0, topic |-> "", payload |-> "", closureDS |-> "unknown",
   outcome |-> "none", session |-> [exists |-> FALSE, connected |-> FALSE], sent |-> FALSE,
   threw |-> FALSE,
   update |-> "none", response |-> NoResponse, report |-> "none",
   published |-> NothingPublished, before |-> InitState]

\* The state after the first render and the mount effect: the session has been
\* opened (mqtt.connect) and has not connected yet.
Init ==
  /\ sensors = InitSensors
  /\ pumps = InitPumps
  /\ valves = InitValves
  /\ dataSource = "unknown"
  /\ mqttConnected = FALSE
  /\ mqttStatus = "disconnected"
  /\ client = [exists |-> TRUE, connected |-> FALSE, closureDS |-> "unknown", original |-> TRUE]
  /\ handled = 0
  /\ last = NoStep
  /\ dispatch = [d \in 1..MaxDispatches |-> Idle]
  /\ subs = NoSubs
  /\ telemetry = NoTelemetry
  /\ boot = SessionEffect("http:", "")
  /\ poll = NoPoll
  /\ ended = FALSE
  /\ route = NoRoute

(* ---------------------------------------------------------------------- *)
(* Session events and the message action                                   *)
(* ---------------------------------------------------------------------- *)

\* client.on('connect')
OnConnect ==
  /\ client.exists /\ ~client.connected
  /\ client' = [client EXCEPT !.connected = TRUE]
  /\ mqttConnected' = TRUE
  /\ mqttStatus' = "connected"
  /\ subs' = SubscribeAll(ConnectTopics, subs)
  /\ UNCHANGED <<sensors, pumps, valves, dataSource, handled, last, dispatch>>
  /\ UNCHANGED <<telemetry, boot, poll, ended, route>>

\* client.on('close')
OnClose ==
  /\ client.exists /\ client.connected
  /\ client' = [client EXCEPT !.connected = FALSE]
  /\ mqttConnected' = FALSE
  /\ mqttStatus' = "disconnected"
  /\ UNCHANGED <<sensors, pumps, valves, dataSource, handled, last, dispatch>>
  /\ UNCHANGED <<subs, telemetry, boot, poll, ended, route>>

\* The setters the handler called, applied (setSensors, setPumps, setValves,
\* setDataSource), with the history of the message
Commit(r, topic, s) ==
  /\ sensors' = r.sensors
  /\ pumps' = r.pumps
  /\ valves' = r.valves
  /\ dataSource' = r.dataSource
  /\ last' = [NoStep EXCEPT !.event = "message", !.topic = topic, !.payload = s,
                            !.closureDS = client.closureDS, !.outcome = r.outcome,
                            !.before = Current]
  /\ telemetry' = IF r.setsPumps
                  THEN [seen |-> TRUE, pumps |-> r.pumps]
                  ELSE telemetry

\* A message delivered to the connected session on a subscribed topic
OnMessage ==
  /\ client.exists /\ client.connected
  /\ handled < MaxMessages
  /\ \E topic \in Topics : \E s \in PayloadsOn(topic) :
       Commit(Handle(topic, s, Current, client.closureDS), topic, s)
  /\ handled' = handled + 1
  /\ UNCHANGED <<mqttConnected, mqttStatus, client, dispatch, subs, boot, poll, ended, route>>

\* useEffect(..., [addLog, dataSource]): once dataSource has changed, the
\* cleanup ends the session (client.end(true)) and the effect body opens a new
\* one whose handlers close over the new dataSource.
EffectRerun ==
  /\ client.exists
  /\ client.closureDS # dataSource
  /\ client' = [exists |-> TRUE, connected |-> FALSE, closureDS |-> dataSource,
                original |-> FALSE]
  /\ ended' = TRUE
  /\ subs' = NoSubs
  /\ UNCHANGED <<sensors, pumps, valves, dataSource, mqttConnected, mqttStatus, handled, last,
               dispatch, telemetry, boot, poll, route>>

NextDecode == OnConnect \/ OnClose \/ OnMessage \/ EffectRerun

SpecDecode == Init /\ [][NextDecode]_vars

(* ---------------------------------------------------------------------- *)
(* The command dispatch                                                    *)
(* ---------------------------------------------------------------------- *)

\* The component is mounted exactly while mqttClientRef.current is set; a
\* setter called after the unmount changes nothing.
Mounted == client.exists

\* The cleanup of the effect on unmount: client.end(true), mqttClientRef.current = null
Unmount ==
  /\ client.exists
  /\ client' = [client EXCEPT !.exists = FALSE, !.connected = FALSE]
  /\ ended' = TRUE
  /\ UNCHANGED <<sensors, pumps, valves, dataSource, mqttConnected, mqttStatus, handled, last,
               dispatch, subs, telemetry, boot, poll, route>>

\* A button calls controlPump(type): the call runs up to the await of the audit
\* insert (the dynamic import and createClient are taken to succeed)
ControlPump(type) ==
  /\ Mounted
  /\ \E d \in 1..MaxDispatches :
       /\ dispatch[d].pc = "idle"
       /\ \A e \in 1..(d - 1) : dispatch[e].pc # "idle"
       /\ dispatch' = [dispatch EXCEPT ![d] = [pc |-> "audit", type |-> type,
                                               row |-> AuditRow(type)]]
  /\ telemetry' = [telemetry EXCEPT !.seen = FALSE]
  /\ UNCHANGED <<sensors, pumps, valves, dataSource, mqttConnected, mqttStatus, client,
               handled, last, subs, boot, poll, ended, route>>

\* The effects of the call d between the audit insert settling and the next
\* await: c is what controlPump does after the insert
Continue(d, outcome, c) ==
  /\ dispatch' = [dispatch EXCEPT ![d].pc = c.pc]
  /\ pumps' = IF Mounted /\ c.update # "none" THEN OptimisticPumps(dispatch[d].type, pumps)
              ELSE pumps
  /\ last' = [NoStep EXCEPT
                !.event = "auditSettled", !.id = d, !.payload = dispatch[d].type,
                !.closureDS = client.closureDS, !.outcome = outcome,
                !.session = [exists |-> client.exists, connected |-> client.connected],
                !.sent = c.sent, !.threw = c.threw, !.update = c.update,
                !.published = IF c.live # ""
                              THEN [path |-> "live", name |-> dispatch[d].type,
                                    payload |-> c.live]
                              ELSE NothingPublished,
                !.before = Current]

\* The audit insert of the call d settles: a row saved, an error result or an
\* exception; controlPump goes on to publishPumpControl, the optimistic update
\* and, when the publish did not go out, the fetch of the relay
AuditSettles(d) ==
  /\ dispatch[d].pc = "audit"
  /\ \E outcome \in {"ok", "error", "throw"} : \E throws \in BOOLEAN :
       Continue(d, outcome,
                ContinueDispatch(dispatch[d].type, outcome,
                                 PublishPumpControl(dispatch[d].type, client, throws)))
  /\ UNCHANGED <<sensors, valves, dataSource, mqttConnected, mqttStatus, client, handled,
               subs, telemetry, boot, poll, ended, route>>

\* The effects of the answer resp on the call d; h is what controlPump makes of it
Answer(d, resp, h) ==
  /\ dispatch' = [dispatch EXCEPT ![d].pc = "done"]
  /\ pumps' = IF Mounted THEN h.pumps ELSE pumps
  /\ last' = [NoStep EXCEPT
                !.event = "relayResponded", !.id = d, !.payload = dispatch[d].type,
                !.closureDS = client.closureDS, !.response = resp, !.report = h.report,
                !.published = IF resp.payload # ""
                              THEN [path |-> "relay", name |-> dispatch[d].type,
                                    payload |-> resp.payload]
                              ELSE NothingPublished,
                !.before = Current]

\* The relay answers the fetch of the call d, or the fetch rejects
RelayResponds(d) ==
  /\ dispatch[d].pc = "relay"
  /\ \E resp \in {PumpRoute(dispatch[d].type, FallbackDuration, b) : b \in BrokerOutcomes}
                 \cup {NetworkError} :
       Answer(d, resp, HandleRelay(dispatch[d].type, resp, pumps))
  /\ UNCHANGED <<sensors, valves, dataSource, mqttConnected, mqttStatus, client, handled,
               subs, telemetry, boot, poll, ended, route>>

\* The answer resp of the route to a request of ManualControl
ManualAnswer(command, resp) ==
  last' = [NoStep EXCEPT
             !.event = "sendPumpCommand", !.payload = command,
             !.closureDS = client.closureDS, !.response = resp,
             !.report = IF resp.success THEN "success" ELSE "failure",
             !.published = IF resp.payload # ""
                           THEN [path |-> "relay", name |-> command, payload |-> resp.payload]
                           ELSE NothingPublished,
             !.before = Current]

\* sendPumpCommand of ManualControl: START with the duration, STOP with 0 (the
\* component's own state is not part of the dashboard's)
SendPumpCommand ==
  /\ \E command \in {"START", "STOP"} :
       \E resp \in {PumpRoute(command, IF command = "START" THEN DefaultDuration ELSE 0, b) :
                       b \in BrokerOutcomes} :
         ManualAnswer(command, resp)
  /\ UNCHANGED <<sensors, pumps, valves, dataSource, mqttConnected, mqttStatus, client,
               handled, dispatch, subs, telemetry, boot, poll, ended, route>>

\* Date.now() of the test publish
TestStamps == {"1762000000000"}

\* testMQTTPublish: TEST_<timestamp> on d02/cmd when the session is connected
TestMQTTPublish ==
  /\ Mounted
  /\ \E ts \in TestStamps :
       last' = [NoStep EXCEPT
                  !.event = "testPublish", !.payload = "TEST_" \o ts,
                  !.closureDS = client.closureDS,
                  !.session = [exists |-> client.exists, connected |-> client.connected],
                  !.sent = client.connected,
                  !.published = IF client.connected
                                THEN [path |-> "live", name |-> "TEST_" \o ts,
                                      payload |-> "TEST_" \o ts]
                                ELSE NothingPublished,
                  !.before = Current]
  /\ UNCHANGED <<sensors, pumps, valves, dataSource, mqttConnected, mqttStatus, client,
               handled, dispatch, subs, telemetry, boot, poll, ended, route>>

\* The controlPump calls and the session they publish on
NextDispatch ==
  \/ OnConnect
  \/ OnClose
  \/ Unmount
  \/ \E type \in ButtonTypes : ControlPump(type)
  \/ \E d \in 1..MaxDispatches : AuditSettles(d)
  \/ \E d \in 1..MaxDispatches : RelayResponds(d)

SpecDispatch == Init /\ [][NextDispatch]_vars

\* Fault variant of PublishCompletes: an error handed to the callback starts
\* the relay fallback and shows both pumps as off
PublishCompletesOrFallsBack(d) ==
  /\ dispatch[d].pc = "published"
  /\ \E err \in BOOLEAN :
       /\ last' = [NoStep EXCEPT
                     !.event = "publishCompleted", !.id = d, !.payload = dispatch[d].type,
                     !.closureDS = client.closureDS,
                     !.outcome = IF err THEN "error" ELSE "ok",
                     !.before = Current]
       /\ dispatch' = [dispatch EXCEPT ![d].pc = IF err THEN "relay" ELSE "done"]
       /\ pumps' = IF err THEN InitPumps ELSE pumps
  /\ UNCHANGED <<sensors, valves, dataSource, mqttConnected, mqttStatus, client,
               handled, subs, telemetry, boot, poll, ended, route>>

\* The completion callback of the publish of the call d runs, with an error or
\* without: either way it writes a log line and nothing else
PublishCompletes(d) ==
  /\ dispatch[d].pc = "published"
  /\ \E err \in BOOLEAN :
       last' = [NoStep EXCEPT
                  !.event = "publishCompleted", !.id = d, !.payload = dispatch[d].type,
                  !.closureDS = client.closureDS,
                  !.outcome = IF err THEN "error" ELSE "ok",
                  !.before = Current]
  /\ dispatch' = [dispatch EXCEPT ![d].pc = "done"]
  /\ UNCHANGED <<sensors, pumps, valves, dataSource, mqttConnected, mqttStatus, client,
               handled, subs, telemetry, boot, poll, ended, route>>


\* Every publisher on d02/cmd: the controlPump calls, ManualControl and the
\* test button (the last two touch nothing of the dashboard but the history)
NextCommands ==
  \/ NextDispatch
  \/ SendPumpCommand
  \/ TestMQTTPublish

SpecCommands == Init /\ [][NextCommands]_vars

(* ---------------------------------------------------------------------- *)
(* The set-up of the session effect                                        *)
(* ---------------------------------------------------------------------- *)

\* Before the effect has run: no session yet, on any page and with any override
InitSetup ==
  /\ sensors = InitSensors
  /\ pumps = InitPumps
  /\ valves = InitValves
  /\ dataSource = "unknown"
  /\ mqttConnected = FALSE
  /\ mqttStatus = "disconnected"
  /\ client = [exists |-> FALSE, connected |-> FALSE, closureDS |-> "unknown", original |-> TRUE]
  /\ handled = 0
  /\ last = NoStep
  /\ dispatch = [d \in 1..MaxDispatches |-> Idle]
  /\ subs = NoSubs
  /\ telemetry = NoTelemetry
  /\ boot \in {BeforeEffect(protocol, override) : protocol \in Protocols, override \in Overrides}
  /\ poll = NoPoll
  /\ ended = FALSE
  /\ route = NoRoute

\* The body of the effect on mount: the URL is chosen, the lines are logged,
\* the session is opened and kept in mqttClientRef.current
RunSessionEffect ==
  /\ boot.pc = "start"
  /\ boot' = SessionEffect(boot.protocol, boot.override)
  /\ client' = [client EXCEPT !.exists = TRUE]
  /\ UNCHANGED <<sensors, pumps, valves, dataSource, mqttConnected, mqttStatus, handled, last,
               dispatch, subs, telemetry, poll, ended, route>>

NextSetup == RunSessionEffect

SpecSetup == InitSetup /\ [][NextSetup]_vars

(* ---------------------------------------------------------------------- *)
(* Session events and subscriptions                                        *)
(* ---------------------------------------------------------------------- *)

\* The flags after an event of the given kind: client.on('reconnect' / 'error' /
\* 'offline' / 'disconnect'); 'close' as in OnClose
EventFlags(kind, connected, status) ==
  CASE kind = "reconnect" -> [connected |-> connected, status |-> "reconnecting"]
    [] kind = "close" -> [connected |-> FALSE, status |-> "disconnected"]
    [] kind = "error" -> [connected |-> FALSE, status |-> "error"]
    [] OTHER -> [connected |-> FALSE, status |-> status]

\* The setters of the event, with flags f
SetFlags(f) ==
  /\ mqttConnected' = f.connected
  /\ mqttStatus' = f.status

\* The session emits reconnect (while it is not connected), error, offline or disconnect
OnSessionEvent ==
  /\ client.exists
  /\ \E kind \in {"reconnect", "error", "offline", "disconnect"} :
       /\ kind = "reconnect" => ~client.connected
       /\ SetFlags(EventFlags(kind, mqttConnected, mqttStatus))
  /\ UNCHANGED <<sensors, pumps, valves, dataSource, client, handled, last, dispatch, subs,
               telemetry, boot, poll, ended, route>>

\* The callback of a subscription request: granted, or an error that is logged
SubscribeSettles ==
  /\ client.exists
  /\ \E topic \in Topics : \E result \in {"granted", "failed"} :
       /\ subs.state[topic] = "pending"
       /\ subs' = [subs EXCEPT !.state[topic] = result]
  /\ UNCHANGED <<sensors, pumps, valves, dataSource, mqttConnected, mqttStatus, client,
               handled, last, dispatch, telemetry, boot, poll, ended, route>>

NextSession ==
  \/ OnConnect
  \/ OnClose
  \/ OnSessionEvent
  \/ SubscribeSettles
  \/ Unmount

SpecSession == Init /\ [][NextSession]_vars

(* ---------------------------------------------------------------------- *)
(* Messages racing with commands                                           *)
(* ---------------------------------------------------------------------- *)

\* The messages of the race: a telemetry object with pump and valve channels
\* on, and a pump status
RaceMessages == {<<TOPIC_TELEMETRY, JsonTexts[2]>>, <<"d02/status", "pump_irrigation=OFF">>}

\* A message of the race delivered to the connected session
OnRaceMessage ==
  /\ client.exists /\ client.connected
  /\ handled < MaxMessages
  /\ \E m \in RaceMessages : Commit(Handle(m[1], m[2], Current, client.closureDS), m[1], m[2])
  /\ handled' = handled + 1
  /\ UNCHANGED <<mqttConnected, mqttStatus, client, dispatch, subs, boot, poll, ended, route>>

\* How many controlPump calls are made during the race
MaxRaceCalls == 1

\* One controlPump call at most is under way
NoCallUnderWay == \A d \in 1..MaxDispatches : dispatch[d].pc \in {"idle", "published", "done"}

NextRace ==
  \/ OnConnect
  \/ OnRaceMessage
  \/ EffectRerun
  \/ \E type \in ButtonTypes :
       NoCallUnderWay /\ dispatch[MaxRaceCalls].pc = "idle" /\ ControlPump(type)
  \/ \E d \in 1..MaxDispatches : AuditSettles(d)
  \/ \E d \in 1..MaxDispatches : RelayResponds(d)

SpecRace == Init /\ [][NextRace]_vars

\* The controlPump calls, one at a time, with the completion callbacks of their
\* publishes, which may come after later calls
NextPublish ==
  \/ OnConnect
  \/ OnClose
  \/ Unmount
  \/ \E type \in ButtonTypes : NoCallUnderWay /\ ControlPump(type)
  \/ \E d \in 1..MaxDispatches : AuditSettles(d)
  \/ \E d \in 1..MaxDispatches : RelayResponds(d)
  \/ \E d \in 1..MaxDispatches : PublishCompletes(d)

SpecPublish == Init /\ [][NextPublish]_vars

(* ---------------------------------------------------------------------- *)
(* The fallback poll and the events of an ended session                    *)
(* ---------------------------------------------------------------------- *)

\* The interval of the auto-refresh effect fires: it exists while the
\* component is mounted and mqttConnected is false
PollStarts ==
  /\ Mounted
  /\ ~mqttConnected
  /\ poll.started < MaxPolls
  /\ poll' = [started |-> poll.started + 1, inflight |-> poll.inflight + 1]
  /\ UNCHANGED <<sensors, pumps, valves, dataSource, mqttConnected, mqttStatus, client,
               handled, last, dispatch, subs, telemetry, boot, ended, route>>

\* The setters of fetchSensorData, f being what it sets
PollSets(answer, f) ==
  /\ sensors' = IF Mounted THEN f.sensors ELSE sensors
  /\ pumps' = IF Mounted THEN f.pumps ELSE pumps
  /\ dataSource' = IF Mounted THEN f.dataSource ELSE dataSource
  /\ mqttConnected' = IF Mounted THEN f.mqttConnected ELSE mqttConnected
  /\ last' = [NoStep EXCEPT
                !.event = "pollResponded", !.closureDS = client.closureDS,
                !.outcome = IF answer.ok THEN "ok" ELSE "error",
                !.session = [exists |-> client.exists, connected |-> client.connected],
                !.before = Current]

\* The fetch of a fetchSensorData call settles
PollResponds ==
  /\ poll.inflight > 0
  /\ poll' = [poll EXCEPT !.inflight = @ - 1]
  /\ \E answer \in PollAnswers : PollSets(answer, FetchSensorData(answer, Current, mqttConnected))
  /\ UNCHANGED <<valves, mqttStatus, client, handled, dispatch, subs, telemetry, boot, ended, route>>

\* A session the cleanup has ended emits close, error or offline: its
\* handlers are those the effect registered
EndedSessionEvent ==
  /\ ended
  /\ ended' = FALSE
  /\ \E kind \in {"close", "error", "offline"} :
       SetFlags(IF Mounted THEN EventFlags(kind, mqttConnected, mqttStatus)
                ELSE [connected |-> mqttConnected, status |-> mqttStatus])
  /\ UNCHANGED <<sensors, pumps, valves, dataSource, client, handled, last, dispatch, subs,
               telemetry, boot, poll, route>>

NextPoll ==
  \/ OnConnect
  \/ OnClose
  \/ PollStarts
  \/ PollResponds
  \/ EffectRerun
  \/ EndedSessionEvent
  \/ Unmount

SpecPoll == Init /\ [][NextPoll]_vars

(* ---------------------------------------------------------------------- *)
(* Messages of the text formats                                            *)
(* ---------------------------------------------------------------------- *)

\* An instance of a text format delivered on the telemetry topic
OnFormatMessage ==
  /\ client.exists /\ client.connected
  /\ handled < MaxMessages
  /\ \E s \in FormatPayloads :
       Commit(Handle(TOPIC_TELEMETRY, s, Current, client.closureDS), TOPIC_TELEMETRY, s)
  /\ handled' = handled + 1
  /\ UNCHANGED <<mqttConnected, mqttStatus, client, dispatch, subs, boot, poll, ended, route>>

NextFormats == OnConnect \/ OnFormatMessage \/ EffectRerun

SpecFormats == Init /\ [][NextFormats]_vars

(* ---------------------------------------------------------------------- *)
(* The pump relay route                                                    *)
(* ---------------------------------------------------------------------- *)

\* A request arrives at the route
RouteRequest ==
  /\ route.pc = "idle"
  /\ \E command \in RouteCommands : \E duration_seconds \in RouteDurations :
       route' = RouteBegin(command, duration_seconds)
  /\ UNCHANGED <<sensors, pumps, valves, dataSource, mqttConnected, mqttStatus, client,
               handled, last, dispatch, subs, telemetry, boot, poll, ended>>

\* The throwaway session connects (once: reconnectPeriod is 0)
RouteConnects ==
  /\ route.session = "open" /\ ~route.connected
  /\ route' = RouteOnConnect(route)
  /\ UNCHANGED <<sensors, pumps, valves, dataSource, mqttConnected, mqttStatus, client,
               handled, last, dispatch, subs, telemetry, boot, poll, ended>>

\* The publish completes: acknowledged while the session is open, or with an
\* error (also the error an ended session hands to a publish still in flight)
RoutePublished ==
  /\ route.inflight
  /\ \E err \in BOOLEAN :
       /\ (~err => route.session = "open")
       /\ route' = RouteOnPublished(route, err)
  /\ UNCHANGED <<sensors, pumps, valves, dataSource, mqttConnected, mqttStatus, client,
               handled, last, dispatch, subs, telemetry, boot, poll, ended>>

\* The audit insert of the route settles
RouteInserted ==
  /\ route.pc = "insert"
  /\ route' = RouteOnInserted(route)
  /\ UNCHANGED <<sensors, pumps, valves, dataSource, mqttConnected, mqttStatus, client,
               handled, last, dispatch, subs, telemetry, boot, poll, ended>>

\* The open session emits 'error'
RouteErrors ==
  /\ route.session = "open"
  /\ route' = RouteOnError(route)
  /\ UNCHANGED <<sensors, pumps, valves, dataSource, mqttConnected, mqttStatus, client,
               handled, last, dispatch, subs, telemetry, boot, poll, ended>>

\* The 10-second timer fires
RouteTimesOut ==
  /\ route.timer = "armed"
  /\ route' = RouteOnTimeout(route)
  /\ UNCHANGED <<sensors, pumps, valves, dataSource, mqttConnected, mqttStatus, client,
               handled, last, dispatch, subs, telemetry, boot, poll, ended>>

\* publishPromise has settled and the handler awaiting it goes on
RouteReturns ==
  /\ route.pc = "await"
  /\ route.promise # "pending"
  /\ route' = RouteReturn(route)
  /\ UNCHANGED <<sensors, pumps, valves, dataSource, mqttConnected, mqttStatus, client,
               handled, last, dispatch, subs, telemetry, boot, poll, ended>>

NextRelay ==
  \/ RouteRequest
  \/ RouteConnects
  \/ RoutePublished
  \/ RouteInserted
  \/ RouteErrors
  \/ RouteTimesOut
  \/ RouteReturns

\* setTimeout fires its callback unless cleared, an awaited insert settles and
\* the continuation of a settled promise runs
SpecRelay ==
  /\ Init
  /\ [][NextRelay]_vars
  /\ WF_vars(RouteTimesOut) /\ WF_vars(RouteInserted) /\ WF_vars(RouteReturns)

(* ---------------------------------------------------------------------- *)
(* Messages delivered again                                                *)
(* ---------------------------------------------------------------------- *)

\* The messages of a redelivery: a compact reading, a nested telemetry object
\* and a status line, each of which the broker may deliver any number of times
DeliveryMessages ==
  {<<TOPIC_TELEMETRY, "temp=25.1,hum=60,count=1">>,
   <<TOPIC_TELEMETRY, JsonTexts[4]>>,
   <<TOPIC_TELEMETRY, "status=online,uptime=145">>}

MaxDeliveries == 4

\* One of the messages delivered to the connected session
OnDelivery ==
  /\ client.exists /\ client.connected
  /\ handled < MaxDeliveries
  /\ \E m \in DeliveryMessages : Commit(Handle(m[1], m[2], Current, client.closureDS), m[1], m[2])
  /\ handled' = handled + 1
  /\ UNCHANGED <<mqttConnected, mqttStatus, client, dispatch, subs, boot, poll, ended, route>>

NextDelivery == OnConnect \/ OnClose \/ OnDelivery \/ EffectRerun

SpecDelivery == Init /\ [][NextDelivery]_vars

(* ---------------------------------------------------------------------- *)
(* Properties of the decoder                                               *)
(* ---------------------------------------------------------------------- *)

\* The last step handled a message on the telemetry topic
TelemetryHandled == last.event = "message" /\ last.topic = TOPIC_TELEMETRY

\* The object the last payload parses to
LastData == JsonParse(last.payload).v

\* The last step handled a nested-environment JSON object on the telemetry topic
NestedHandled ==
  /\ TelemetryHandled
  /\ last.payload \in JsonPayloads
  /\ "bme" \in DOMAIN LastData /\ "bme.t" \in DOMAIN LastData

\* The elements of the array under key, <<>> when the key is absent
ArrayOf(data, key) == IF key \in DOMAIN data /\ data[key].t = "arr" THEN data[key].a ELSE <<>>

\* The sum of the elements of e at the indices idx
RECURSIVE SumOver(_, _)
SumOver(e, idx) ==
  IF idx = {} THEN JInt(0)
  ELSE LET i == CHOOSE k \in idx : TRUE IN JAdd(e[i], SumOver(e, idx \ {i}))

\* The arithmetic mean of the elements of e at the indices idx (idx not empty)
MeanOver(e, idx) == JDivInt(SumOver(e, idx), Cardinality(idx))

\* The indices of the entries greater than -100
AboveFault(e) == {i \in 1..Len(e) : e[i].t = "num" /\ e[i].n > (-100) * e[i].d}

\* array[i] (0-based) is the number 1
IsOne(data, key, i) == i + 1 <= Len(ArrayOf(data, key)) /\ ArrayOf(data, key)[i + 1] = JInt(1)

\* C1: after a nested-environment JSON payload whose ds18b20 is an array or
\* absent is handled on the telemetry topic, soilTemp is the arithmetic mean of
\* exactly the ds18b20 entries greater than -100; when no entry is greater
\* than -100 (all faults, empty or absent) soilTemp is the payload's bme.t: not
\* NaN, and not 0 unless bme.t is 0.
C1_SoilTempMean ==
  (NestedHandled /\ ("ds18b20" \in DOMAIN LastData => LastData["ds18b20"].t = "arr"))
  => IF AboveFault(ArrayOf(LastData, "ds18b20")) # {}
     THEN sensors.soilTemp = MeanOver(ArrayOf(LastData, "ds18b20"),
                                      AboveFault(ArrayOf(LastData, "ds18b20")))
     ELSE /\ sensors.soilTemp = LastData["bme.t"]
          /\ sensors.soilTemp.t # "nan"
          /\ (LastData["bme.t"] # JInt(0) => sensors.soilTemp # JInt(0))

\* A nested payload with a fault entry and valid entries has been handled, and
\* the mean is over the valid entries only
C1_Witness ==
  /\ NestedHandled
  /\ AboveFault(ArrayOf(LastData, "ds18b20")) # {}
  /\ Cardinality(AboveFault(ArrayOf(LastData, "ds18b20"))) < Len(ArrayOf(LastData, "ds18b20"))
  /\ sensors.soilTemp = JNum(43, 2)

\* The last step handled a nested payload with non-empty soil and water arrays
NestedWithSeries ==
  /\ NestedHandled
  /\ Len(ArrayOf(LastData, "soil")) > 0
  /\ Len(ArrayOf(LastData, "water")) > 0

\* C2: after a nested-environment JSON payload with non-empty soil and water
\* arrays is handled on the telemetry topic, pressure, airTemp and airHumidity
\* are bme.p, bme.t and bme.h, soilHumidity and waterLevel are the means of soil
\* and water, a pump or valve is on iff its channel equals 1, and the tag is
\* 'stm32-json'; the documented sample gives 997, 25.02, 57.2, soilTemp 0,
\* soilHumidity 100, waterLevel 0.95, pumps and valves off.
C2_NestedMapping ==
  NestedWithSeries
  => /\ sensors.pressure = LastData["bme.p"]
     /\ sensors.airTemp = LastData["bme.t"]
     /\ sensors.airHumidity = LastData["bme.h"]
     /\ sensors.soilHumidity = MeanOver(ArrayOf(LastData, "soil"),
                                        1..Len(ArrayOf(LastData, "soil")))
     /\ sensors.waterLevel = MeanOver(ArrayOf(LastData, "water"),
                                      1..Len(ArrayOf(LastData, "water")))
     /\ pumps.irrigation = JBool(IsOne(LastData, "pump", 0))
     /\ pumps.suction = JBool(IsOne(LastData, "pump", 1))
     /\ valves.valve1 = JBool(IsOne(LastData, "valve", 0))
     /\ valves.valve2 = JBool(IsOne(LastData, "valve", 1))
     /\ valves.valve3 = JBool(IsOne(LastData, "valve", 2))
     /\ dataSource = "stm32-json"
     /\ (last.payload = DocSample
         => /\ sensors.pressure = JInt(997)
            /\ sensors.airTemp = JNum(2502, 100)
            /\ sensors.airHumidity = JNum(572, 10)
            /\ sensors.soilTemp = JInt(0)
            /\ sensors.soilHumidity = JInt(100)
            /\ sensors.waterLevel = JNum(95, 100)
            /\ pumps = [irrigation |-> JFalse, suction |-> JFalse]
            /\ valves = [valve1 |-> JFalse, valve2 |-> JFalse, valve3 |-> JFalse])

\* The documented sample has been handled over a state in which a pump was on
C2_Witness ==
  /\ NestedWithSeries
  /\ last.payload = DocSample
  /\ last.before.pumps.irrigation = JTrue
  /\ sensors.waterLevel = JNum(19, 20)

\* The wire formats of the telemetry topic, in the order of the code's chain
CodeOrder ==
  <<"json", "stm32-simple", "stm32-ultra", "stm32-bme280", "stm32-comprehensive",
    "stm32-compact", "stm32-status">>

\* The order the specification documents (it lists no temp=/hum= format)
DocumentedOrder ==
  <<"json", "stm32-comprehensive", "stm32-bme280", "stm32-simple", "stm32-ultra",
    "stm32-status">>

\* The match condition of each wire format
MatchCondition(fmt, s) ==
  CASE fmt = "json" -> StartsWith(s, "{")
    [] fmt = "stm32-simple" -> IsStm32Simple(s)
    [] fmt = "stm32-ultra" -> IsStm32Ultra(s)
    [] fmt = "stm32-bme280" -> IsBme280(s)
    [] fmt = "stm32-comprehensive" -> IsComprehensive(s)
    [] fmt = "stm32-compact" -> IsCompact(s)
    [] fmt = "stm32-status" -> IsStatus(s)

\* The positions of order whose format's match condition s satisfies
Hits(order, s) == {i \in 1..Len(order) : MatchCondition(order[i], s)}

\* The first format of order that s matches, "none" when it matches none
FirstOf(order, hits) ==
  IF hits = {} THEN "none" ELSE order[CHOOSE i \in hits : \A k \in hits : i <= k]

\* For each payload: the first format it matches in the order of the code, the
\* first in the documented order, and how many documented formats it matches
CodeFirst == [s \in AllPayloads |-> FirstOf(CodeOrder, Hits(CodeOrder, s))]
DocumentedFirst == [s \in AllPayloads |-> FirstOf(DocumentedOrder, Hits(DocumentedOrder, s))]
DocumentedHits == [s \in AllPayloads |-> Cardinality(Hits(DocumentedOrder, s))]

\* The tags a decode in the given format sets
TagsOf(fmt) ==
  IF fmt = "json" THEN {"stm32-json", "mqtt-json-legacy", "mqtt-json-simple"}
  ELSE IF fmt = "none" THEN {}
  ELSE {fmt}

\* The dashboard state st is the state part of the handler's result r
SameState(st, r) ==
  st = [sensors |-> r.sensors, pumps |-> r.pumps, valves |-> r.valves,
        dataSource |-> r.dataSource]

\* The dashboard state is what the handler yields on the state before the message
SameAsHandler ==
  SameState(Current, Handle(last.topic, last.payload, last.before, last.closureDS))

\* C3 (as amended): a telemetry payload is decoded by the first format it
\* matches in the order of the code's chain (JSON, prefixed positional,
\* ultra-short, pipe summary, comma key=value, compact temp=/hum=, status): a
\* changed tag is a tag of that format, a payload matching no format changes
\* nothing, and the resulting state is a function of payload and prior state.
C3_CodeOrder ==
  TelemetryHandled
  => /\ (dataSource # last.before.dataSource
         => dataSource \in TagsOf(CodeFirst[last.payload]))
     /\ (Current # last.before => CodeFirst[last.payload] # "none")
     /\ (CodeFirst[last.payload] = "none" <=> last.outcome = "unknown")
     /\ SameAsHandler

\* A payload matching both the prefixed positional and the comma key=value
\* condition has been decoded as prefixed positional
C3_Witness ==
  /\ TelemetryHandled
  /\ DocumentedHits[last.payload] > 1
  /\ CodeFirst[last.payload] = "stm32-simple"
  /\ DocumentedFirst[last.payload] = "stm32-comprehensive"
  /\ dataSource = "stm32-simple"
  /\ sensors.pressure = JInt(701)

\* C3 (as stated): a telemetry payload that matches more than one format is
\* decoded by the first it matches in the documented order (JSON, comma
\* key=value, pipe summary, prefixed positional, ultra-short, status).
C3_DocumentedOrder ==
  (TelemetryHandled /\ DocumentedHits[last.payload] > 1
   /\ dataSource # last.before.dataSource)
  => dataSource \in TagsOf(DocumentedFirst[last.payload])

\* The last step handled a status-only message or a message on the test topic
StatusOrTestHandled ==
  /\ last.event = "message"
  /\ \/ last.topic \in {"d02/status", "test"}
     \/ last.topic = TOPIC_TELEMETRY /\ CodeFirst[last.payload] = "stm32-status"

\* C4: once a structured-JSON decode has set the tag, a status-only message
\* or a message on the test topic leaves the tag as it was.
C4_TagNeverRegresses ==
  (StatusOrTestHandled /\ last.before.dataSource \in TagsOf("json"))
  => dataSource = last.before.dataSource

\* Payloads that are not a valid instance of any format and that the handler
\* drops: invalid JSON text, JSON objects of no sub-variant, text matching no
\* matcher, and text instances lacking a field their decoder requires
DroppedPayloads ==
  { "{st=25,at=27,p=825",
    "{\"pressure\":900}", "{\"foo\":1}",
    "hello", "status=online", "P701T21H52W12A26", "st=25,at=27,sh=65",
    "STM32_DATA_SH52_WL12", "st=x,at=27,p=825", "BME: 25.1C | Soil: 60% | Water: 35.5%" }

\* Truncated instances that keep the fields their decoder requires
TruncatedPayloads == {"STM32_DATA_P701_ST21", "st=25,at=27,p=825"}

\* Payloads of the status topic carrying no pump state
DroppedStatusPayloads == {"pump_irrigation=", "status=online,uptime=145"}

\* The last step handled, on a handled topic, a payload that is no valid instance
InvalidHandled ==
  /\ last.event = "message"
  /\ \/ last.topic = TOPIC_TELEMETRY /\ last.payload \in DroppedPayloads \cup TruncatedPayloads
     \/ last.topic = "d02/status" /\ last.payload \in DroppedStatusPayloads

\* The last step handled a payload the handler drops
DroppedHandled ==
  /\ last.event = "message"
  /\ \/ last.topic = TOPIC_TELEMETRY /\ last.payload \in DroppedPayloads
     \/ last.topic = "d02/status" /\ last.payload \in DroppedStatusPayloads

BothOff == [irrigation |-> JFalse, suction |-> JFalse]

\* The last step was a step of a controlPump('stop') call
StopStep == last.event \in {"auditSettled", "relayResponded"} /\ last.payload = "stop"

\* C6: controlPump('stop') sets both pumps to false in the dashboard state,
\* and no step of the stop dispatch sets a pump to true, whatever the outcome
\* of the publish, of the audit insert and of the relay.
C6_StopKeepsPumpsOff ==
  /\ (last.event = "auditSettled" /\ last.payload = "stop" /\ Mounted) => pumps = BothOff
  /\ StopStep => \A f \in {"irrigation", "suction"} :
                   pumps[f] = JTrue => last.before.pumps[f] = JTrue

\* C7: when publishPumpControl finds the session missing or not connected,
\* controlPump asks the relay, and the operator is told of success exactly
\* when the relay answers with an OK status and success = true; a non-OK
\* status, success = false and a network error are told as failure.
C7_RelayFallback ==
  /\ (last.event = "auditSettled" /\ ~(last.session.exists /\ last.session.connected))
     => (~last.sent /\ dispatch[last.id].pc = "relay")
  /\ last.event = "relayResponded"
     => /\ last.report \in {"success", "failure"}
        /\ last.report = "success"
           <=> /\ last.response.kind = "response"
               /\ last.response.status \in 200..299
               /\ last.response.success

\* A call made without a connected session has been told of the relay's success
C7_Witness ==
  /\ last.event = "relayResponded"
  /\ last.payload = "sedot"
  /\ last.response.status = 200
  /\ last.report = "success"
  /\ pumps.suction = JTrue

\* C8: a command name outside the vocabulary is never published to d02/cmd,
\* on the live path or through the relay.
C8_OnlyVocabularyPublished ==
  last.published.payload # "" => ToUpperCase(last.published.name) \in Vocabulary

\* C9: for each of the five commands the relay, when its own broker session
\* works, accepts the command and publishes the upper-cased command word,
\* as the live path does.
C9_RelayEquivalent ==
  (last.event = "relayResponded" /\ last.response.kind = "response"
   /\ last.response.status # 500)
  => /\ last.response.status = 200
     /\ StartsWith(last.response.payload, ToUpperCase(last.payload))

\* The audit row and the optimistic branch of each button, as a table
ExpectedRow ==
  [type \in ButtonTypes |->
     CASE type = "pompa" -> [command |-> "POMPA", pump_type |-> "irrigation", source |-> "manual"]
       [] type = "sedot" -> [command |-> "SEDOT", pump_type |-> "suction", source |-> "manual"]
       [] type = "stop" -> [command |-> "STOP", pump_type |-> "unknown", source |-> "manual"]
       [] type = "auto" -> [command |-> "AUTO", pump_type |-> "unknown", source |-> "manual"]
       [] type = "resume" -> [command |-> "RESUME", pump_type |-> "unknown", source |-> "manual"]]

ExpectedUpdate ==
  [type \in ButtonTypes |->
     CASE type = "pompa" -> "irrigation-on" [] type = "sedot" -> "suction-on"
       [] type = "stop" -> "both-off" [] OTHER -> "none"]

\* C10: every controlPump call attempts the audit insert (upper-cased command,
\* inferred pump type, source 'manual') before and whatever the publish does,
\* and whether the insert succeeds, returns an error or throws, the publish
\* is attempted, the optimistic update runs and the relay is asked when the
\* publish did not go out.
C10_AuditIndependent ==
  /\ \A d \in 1..MaxDispatches :
       dispatch[d].pc # "idle" => dispatch[d].row = ExpectedRow[dispatch[d].type]
  /\ last.event = "auditSettled"
     => /\ last.outcome \in {"ok", "error", "throw"}
        /\ last.update = ExpectedUpdate[last.payload]
        /\ (Mounted /\ last.payload = "pompa") => pumps.irrigation = JTrue
        /\ (Mounted /\ last.payload = "sedot") => pumps.suction = JTrue
        /\ (Mounted /\ last.payload = "stop") => pumps = BothOff
        /\ last.sent => /\ last.session.exists /\ last.session.connected
                        /\ last.published = [path |-> "live", name |-> last.payload,
                                             payload |-> ExpectedRow[last.payload].command]
                        /\ dispatch[last.id].pc = "published"
        /\ ~last.sent => dispatch[last.id].pc = "relay"

\* The audit insert of a stop call threw, and the call went on: it published
\* STOP on the live session and switched off a pump that was on
C10_Witness ==
  /\ last.event = "auditSettled"
  /\ last.outcome = "throw"
  /\ last.payload = "stop"
  /\ last.sent
  /\ last.before.pumps.irrigation = JTrue
  /\ pumps = BothOff

(* ---------------------------------------------------------------------- *)
(* Properties of the session                                               *)
(* ---------------------------------------------------------------------- *)

\* A subscription request fails in this step
SubscriptionFails ==
  \E t \in Topics : subs.state[t] = "pending" /\ subs'.state[t] = "failed"

\* The latest connect event issued exactly one request for every topic
OneRequestEach == \A t \in Topics : subs.requests[t] = 1 /\ subs.state[t] # "none"

\* C11: every connect event of the session, the first and every reconnect,
\* issues exactly one subscription request for each of the four topics,
\* whether earlier requests were granted or failed; a request that fails
\* leaves the session and the connection flags as they are.
C11_SubscribesOnEveryConnect ==
  /\ []((client.exists /\ client.connected) => OneRequestEach)
  /\ [][SubscriptionFails => UNCHANGED <<client, mqttConnected, mqttStatus>>]_vars

\* The session has reconnected after a request had failed, and all four
\* topics are requested again, once each
C11_Witness ==
  /\ client.exists /\ client.connected
  /\ subs.priorFailed
  /\ \A t \in Topics : subs.requests[t] = 1 /\ subs.state[t] = "pending"

(* ---------------------------------------------------------------------- *)
(* Properties of the merge                                                 *)
(* ---------------------------------------------------------------------- *)

\* The nine fields of the sensors state, the six scalar ones in the order of SixFields
ScalarFields ==
  <<"pressure", "soilTemp", "soilHumidity", "waterLevel", "airTemp", "airHumidity">>
SensorFields == {ScalarFields[i] : i \in 1..Len(ScalarFields)} \cup {"ds_t", "soil", "water"}

\* The scalar fields whose marker (keys[i] for ScalarFields[i]) is followed by digits in s
MarkedFields(s, keys) ==
  {ScalarFields[i] : i \in {k \in 1..Len(ScalarFields) : CaptureDigits(s, keys[k]) # ""}}

\* The sensor fields a JSON object supplies: a series supplies itself and the
\* scalar derived from it
SuppliedByJson(data) ==
  UNION { IF "bme.p" \in DOMAIN data \/ "bme_p" \in DOMAIN data \/ "pressure" \in DOMAIN data
          THEN {"pressure"} ELSE {},
          IF "bme.t" \in DOMAIN data \/ "bme_t" \in DOMAIN data \/ "airTemp" \in DOMAIN data
          THEN {"airTemp"} ELSE {},
          IF "bme.h" \in DOMAIN data \/ "bme_h" \in DOMAIN data \/ "airHumidity" \in DOMAIN data
          THEN {"airHumidity"} ELSE {},
          IF "ds18b20" \in DOMAIN data \/ "ds_t" \in DOMAIN data THEN {"soilTemp", "ds_t"} ELSE {},
          IF "soil" \in DOMAIN data \/ "soil0" \in DOMAIN data THEN {"soilHumidity", "soil"} ELSE {},
          IF "water" \in DOMAIN data \/ "water1" \in DOMAIN data THEN {"waterLevel", "water"} ELSE {},
          IF "soilTemp" \in DOMAIN data THEN {"soilTemp"} ELSE {},
          IF "soilHumidity" \in DOMAIN data THEN {"soilHumidity"} ELSE {},
          IF "waterLevel" \in DOMAIN data THEN {"waterLevel"} ELSE {} }

\* The sensor fields a text payload supplies, read generously: the pipe
\* summary and the ultra-short format count as supplying all six scalars, the
\* compact format both temperatures and both humidities
SuppliedByText(s, fmt) ==
  CASE fmt = "stm32-simple" ->
         MarkedFields(RemoveFirst(s, "STM32_DATA_"), <<"P", "ST", "SH", "WL", "AT", "AH">>)
    [] fmt = "stm32-comprehensive" ->
         MarkedFields(s, <<"p=", "st=", "sh=", "wl=", "at=", "ah=">>)
    [] fmt \in {"stm32-ultra", "stm32-bme280"} -> {ScalarFields[i] : i \in 1..Len(ScalarFields)}
    [] fmt = "stm32-compact" -> {"soilTemp", "soilHumidity", "airTemp", "airHumidity"}
    [] OTHER -> {}

\* For each payload of the telemetry topic, the sensor fields it supplies
Supplied ==
  [s \in JsonPayloads \cup TextPayloads |->
     IF s \in JsonPayloads THEN SuppliedByJson(JsonParse(s).v) ELSE SuppliedByText(s, CodeFirst[s])]

\* C12: after a telemetry message has been decoded, every sensor field the
\* message does not supply, scalar or series, has the value it had before.
C12_UnsuppliedKept ==
  (TelemetryHandled /\ last.outcome = "decoded")
  => \A f \in SensorFields \ Supplied[last.payload] : sensors[f] = last.before.sensors[f]

\* The last step handled a nested payload whose setters ran (ds18b20 is an
\* array or absent) and whose soil array is empty or absent
NestedWithoutSoil ==
  /\ NestedHandled
  /\ ("ds18b20" \in DOMAIN LastData => LastData["ds18b20"].t = "arr")
  /\ Len(ArrayOf(LastData, "soil")) = 0

\* The same for the water array
NestedWithoutWater ==
  /\ NestedHandled
  /\ ("ds18b20" \in DOMAIN LastData => LastData["ds18b20"].t = "arr")
  /\ Len(ArrayOf(LastData, "water")) = 0

C14_TelemetryWins == telemetry.seen => pumps = telemetry.pumps

(* ---------------------------------------------------------------------- *)
(* Properties of the set-up                                                *)
(* ---------------------------------------------------------------------- *)

\* The positions of the entry e in the log
PositionsOf(e, log) == {i \in 1..Len(log) : log[i] = e}

\* C15: with no broker URL override the session URL is
\* wss://test.mosquitto.org:8081 on an https: page and
\* ws://test.mosquitto.org:8080 otherwise; an override is used unchanged; the
\* warning is logged exactly when the page is https: and the URL starts with
\* ws://, and then before the connection is attempted.
C15_BrokerUrl ==
  boot.pc = "connected"
  => /\ boot.override = ""
        => boot.url = (IF boot.protocol = "https:" THEN "wss://test.mosquitto.org:8081"
                       ELSE "ws://test.mosquitto.org:8080")
     /\ boot.override # "" => boot.url = boot.override
     /\ Cardinality(PositionsOf("connect", boot.log)) = 1
     /\ boot.log[Len(boot.log)] = "connect"
     /\ (boot.protocol = "https:" /\ Len(boot.url) >= 5 /\ SubSeq(boot.url, 1, 5) = "ws://")
        <=> PositionsOf("warning", boot.log) # {}
     /\ \A w \in PositionsOf("warning", boot.log) :
          \A c \in PositionsOf("connect", boot.log) : w < c

\* On an https: page an insecure override has been used unchanged, with the
\* warning logged before the connection
C15_Witness ==
  /\ boot.pc = "connected"
  /\ boot.protocol = "https:"
  /\ boot.override = "ws://broker.local:9001"
  /\ boot.url = "ws://broker.local:9001"
  /\ boot.log = <<"connecting", "warning", "connect">>
  /\ client.exists

(* ---------------------------------------------------------------------- *)
(* Properties of the valves                                                *)
(* ---------------------------------------------------------------------- *)

\* A step of a controlPump call was the last step
CommandStep == last.event \in {"auditSettled", "relayResponded"}

\* C16: no step of a command, on the live path or through the relay and
\* whatever its outcome, changes a valve; the valves change only in the step
\* that handles a message of the telemetry topic.
C16_ValvesOnlyFromTelemetry ==
  /\ [](CommandStep => valves = last.before.valves)
  /\ [][valves' # valves
        => (last'.event = "message" /\ last'.topic = TOPIC_TELEMETRY)]_vars

\* The relay has answered a command with success over valves that telemetry had opened
C16_Witness ==
  /\ last.event = "relayResponded"
  /\ last.report = "success"
  /\ valves = [valve1 |-> JTrue, valve2 |-> JFalse, valve3 |-> JTrue]
  /\ pumps # last.before.pumps

(* ---------------------------------------------------------------------- *)
(* Properties of a message delivered again                                 *)
(* ---------------------------------------------------------------------- *)

\* The step handles the message that was the last one handled
DeliveredAgain ==
  /\ handled' = handled + 1
  /\ last.event = "message"
  /\ last'.topic = last.topic /\ last'.payload = last.payload

\* C17: the step that handles, a second time in succession, the message that
\* was the last one handled leaves sensors, pumps, valves and the data-source
\* tag as the first handling left them.
C17_TwiceAsOnce == [][DeliveredAgain => Current' = Current]_vars

\* The second handling by the handler that did the first (no run of the
\* session effect between the two) leaves the state of the first
C17_SameHandlerTwice ==
  [][(DeliveredAgain /\ last'.closureDS = last.closureDS) => Current' = Current]_vars

(* ---------------------------------------------------------------------- *)
(* Properties of the session's lifetime                                    *)
(* ---------------------------------------------------------------------- *)

\* C18: while the component is mounted its primary session is the one created
\* at mount: no message, connection event or command ends it or replaces it.
C18_OneSessionUntilTeardown == client.exists => (client.original /\ ~ended)

(* ---------------------------------------------------------------------- *)
(* Properties of the fallback poll and of an ended session                 *)
(* ---------------------------------------------------------------------- *)

\* The primary session is connected
SessionConnected == client.exists /\ client.connected

\* C19: while the primary session is connected no fetchSensorData call is
\* started, and a call that settles (one started before the session connected)
\* leaves sensors, pumps, the data-source tag and the connected flag alone.
C19_PollIdleWhileConnected ==
  [][SessionConnected
     => /\ poll'.started = poll.started
        /\ (poll'.inflight < poll.inflight
            => UNCHANGED <<sensors, pumps, dataSource, mqttConnected>>)]_vars

\* C20: an event of a session that the cleanup of the session effect has ended
\* changes neither the connected flag, the connection status, sensors, pumps,
\* valves nor the data-source tag.
C20_EndedSessionSilent ==
  [][(ended /\ ~ended')
     => UNCHANGED <<mqttConnected, mqttStatus, sensors, pumps, valves, dataSource>>]_vars

(* ---------------------------------------------------------------------- *)
(* Properties of a payload whose extraction throws                         *)
(* ---------------------------------------------------------------------- *)

\* The last step handled a message whose handling ended in the catch block
\* after a format had matched (the text parsed as JSON)
ThrownAfterMatch ==
  /\ TelemetryHandled
  /\ last.outcome = "caught"
  /\ JsonParse(last.payload).ok

\* C21: a payload whose extraction throws after its format matched has changed
\* no part of sensors, pumps, valves or the data-source tag.
C21_ThrowChangesNothing == ThrownAfterMatch => Current = last.before

(* ---------------------------------------------------------------------- *)
(* Properties of the types of the dashboard state                          *)
(* ---------------------------------------------------------------------- *)

\* C22: each of the six scalar sensor fields is a number (not undefined, NaN
\* or a string) and each pump and valve field is a boolean, in every state.
C22_WellTyped ==
  /\ \A i \in 1..Len(ScalarFields) : IsNum(sensors[ScalarFields[i]])
  /\ \A f \in DOMAIN pumps : pumps[f].t = "bool"
  /\ \A f \in DOMAIN valves : valves[f].t = "bool"

(* ---------------------------------------------------------------------- *)
(* Properties of status and test messages                                  *)
(* ---------------------------------------------------------------------- *)

\* The pump field is as it was, or the payload names it with marker and the
\* field is true exactly when the word after the marker is ON
PumpAsNamed(field, marker) ==
  \/ pumps[field] = last.before.pumps[field]
  \/ /\ Includes(last.payload, marker)
     /\ CaptureWord(last.payload, marker) # ""
     /\ pumps[field] = JBool(CaptureWord(last.payload, marker) = "ON")

\* C23: a status message or a message on the test topic changes no sensor
\* field and no valve; a d02/status message changes at most the pumps it names
\* (true iff ON); a test message changes at most the tag, and only when the
\* tag was 'unknown' or 'awaiting-mqtt'.
C23_StatusAndTestFrame ==
  StatusOrTestHandled
  => /\ sensors = last.before.sensors
     /\ valves = last.before.valves
     /\ last.topic = "d02/status"
        => /\ dataSource = last.before.dataSource
           /\ PumpAsNamed("irrigation", "pump_irrigation=")
           /\ PumpAsNamed("suction", "pump_suction=")
     /\ last.topic = "test"
        => /\ pumps = last.before.pumps
           /\ dataSource # last.before.dataSource
              => last.before.dataSource \in {"unknown", "awaiting-mqtt"}

(* ---------------------------------------------------------------------- *)
(* Properties of the pump relay route                                      *)
(* ---------------------------------------------------------------------- *)

\* The route has opened its throwaway session
RouteSessionOpened == route.session # "none"

\* C24: in the relay route the throwaway session is ended by the time the
\* promise settles, on every path (publish acknowledged, publish error,
\* connection error, timeout); at most one message is published; the request
\* is answered at most once, with success only after an acknowledged publish;
\* and a request whose session was opened is answered.
C24_RelaySession ==
  /\ [](/\ route.published <= 1
        /\ route.answers <= 1
        /\ (route.promise # "pending" \/ route.acked) => route.session = "ended"
        /\ (route.answers = 1 /\ RouteSessionOpened) => route.session = "ended"
        /\ (route.answers = 1 /\ route.answer.success)
           => (route.acked /\ route.promise = "resolved"))
  /\ (RouteSessionOpened ~> route.answers = 1)

\* The timer fired with the publish in flight; the session was ended and the
\* request answered with a failure
C24_Witness ==
  /\ route.timer = "fired"
  /\ route.published = 1
  /\ route.session = "ended"
  /\ route.answers = 1
  /\ ~route.answer.success /\ route.answer.status = 500

(* ---------------------------------------------------------------------- *)
(* Properties of the text formats                                          *)
(* ---------------------------------------------------------------------- *)

\* The last step handled the payload of the set ps on the telemetry topic
PayloadHandled(ps) == TelemetryHandled /\ last.payload \in ps

\* What a scalar field is after a text decode whose capture for it is x ("" when
\* there is none): the integer of the capture when that is not zero, else
\* the value before
FieldFrom(x, before) == IF x # "" /\ DigitsValue(x) # 0 THEN JInt(DigitsValue(x)) ELSE before

\* Each scalar field is what the capture after its marker (keys[i] for
\* ScalarFields[i]) in s makes of the value before
ScalarsFrom(s, keys) ==
  \A i \in 1..Len(ScalarFields) :
    sensors[ScalarFields[i]]
      = FieldFrom(CaptureDigits(s, keys[i]), last.before.sensors[ScalarFields[i]])

\* The markers of the comma key=value format, in the order of ScalarFields
CommaKeys == <<"p=", "st=", "sh=", "wl=", "at=", "ah=">>

\* The markers of s that are followed by digits
Marked(s, keys) == {i \in 1..Len(keys) : CaptureDigits(s, keys[i]) # ""}

\* C25 (as amended): a comma key=value payload is decoded exactly when st, at
\* and p are each followed by digits; then the tag is 'stm32-comprehensive',
\* each scalar field is the integer after its marker when that is present and
\* not zero and its previous value otherwise, pumps and valves stay; a payload
\* lacking one of the three changes nothing; the counter c changes nothing.
C25_ThreeRequired ==
  PayloadHandled(CommaPayloads)
  => IF {1, 2, 5} \subseteq Marked(last.payload, CommaKeys)
     THEN /\ dataSource = "stm32-comprehensive"
          /\ ScalarsFrom(last.payload, CommaKeys)
          /\ pumps = last.before.pumps /\ valves = last.before.valves
     ELSE Current = last.before

\* The three required fields alone have been decoded over a state whose other
\* three fields had been set by a prefixed positional payload
C25_Witness ==
  /\ PayloadHandled({"st=25,at=27,p=825"})
  /\ dataSource = "stm32-comprehensive"
  /\ sensors.pressure = JInt(825) /\ sensors.soilTemp = JInt(25) /\ sensors.airTemp = JInt(27)
  /\ sensors.soilHumidity = JInt(52) /\ sensors.waterLevel = JInt(12)
  /\ last.before.sensors.pressure = JInt(701)

\* C25 as stated: a comma key=value payload changes the state only if all six
\* of st, at, sh, ah, p and wl are followed by digits.
C25_SixRequired ==
  (PayloadHandled(CommaPayloads) /\ Current # last.before)
  => Marked(last.payload, CommaKeys) = 1..6

\* The field codes of the prefixed positional format, in the order of ScalarFields
PrefixedKeys == <<"P", "ST", "SH", "WL", "AT", "AH">>

\* Each scalar field is the integer after its marker in s when the marker is
\* there, and its previous value when it is not
PresentApplied(s, keys) ==
  \A i \in 1..Len(ScalarFields) :
    LET x == CaptureDigits(s, keys[i])
    IN  sensors[ScalarFields[i]]
          = IF x # "" THEN JInt(DigitsValue(x)) ELSE last.before.sensors[ScalarFields[i]]

\* C26: after a prefixed positional payload, whichever of the six field codes
\* it carries, each field present is applied to its sensor field and each
\* field absent keeps its previous value.
C26_EveryPresentApplied ==
  PayloadHandled(PrefixedPayloads)
  => PresentApplied(RemoveFirst(last.payload, "STM32_DATA_"), PrefixedKeys)

\* The part of C26 the handler keeps: with P and ST present the fields present
\* and not zero are applied and the others keep their values; without P or
\* without ST nothing changes
PrefixedAsCoded ==
  PayloadHandled(PrefixedPayloads)
  => LET s == RemoveFirst(last.payload, "STM32_DATA_")
     IN  IF {1, 2} \subseteq Marked(s, PrefixedKeys)
         THEN dataSource = "stm32-simple" /\ ScalarsFrom(s, PrefixedKeys)
         ELSE Current = last.before

\* The groups of the first match of the regular expression re (with n groups) in the last payload
Groups(re, n) == RegexMatch(last.payload, re, n, FALSE, FALSE)

\* The arithmetic mean of numbers given as strings of digits with an optional point
MeanOfTexts(texts) ==
  JDivInt(ReduceSum([i \in 1..Len(texts) |-> ParseFloat(texts[i])]), Len(texts))

\* The last step handled a pipe-delimited summary with its BME, Soil, Water
\* and Pompa blocks complete
PipeSummaryHandled ==
  /\ PayloadHandled(PipePayloads)
  /\ Groups(BmeRe, 3).ok /\ Groups(SoilRe, 3).ok /\ Groups(WaterRe, 2).ok /\ Groups(PompaRe, 2).ok

\* C27: after a pipe-delimited summary airTemp, pressure and airHumidity are
\* the three BME values, soilHumidity is the arithmetic mean of the three Soil
\* percentages, waterLevel the arithmetic mean of the two Water values, and
\* irrigation and suction are true exactly when the first and the second Pompa
\* word is ON.
C27_PipeSummaryValues ==
  PipeSummaryHandled
  => /\ sensors.airTemp = ParseFloat(Groups(BmeRe, 3).cap[1])
     /\ sensors.pressure = ParseFloat(Groups(BmeRe, 3).cap[2])
     /\ sensors.airHumidity = ParseFloat(Groups(BmeRe, 3).cap[3])
     /\ sensors.soilHumidity = MeanOfTexts(Groups(SoilRe, 3).cap)
     /\ sensors.waterLevel = MeanOfTexts(Groups(WaterRe, 2).cap)
     /\ pumps.irrigation = JBool(Groups(PompaRe, 2).cap[1] = "ON")
     /\ pumps.suction = JBool(Groups(PompaRe, 2).cap[2] = "ON")

\* The part of C27 the handler keeps: a value that is not zero is applied, the
\* means being rounded to the nearest integer; a zero keeps the previous value
PipeAsCoded ==
  LET nz(v, before) == IF Truthy(v) THEN v ELSE before
  IN  PipeSummaryHandled
      => /\ sensors.airTemp = nz(ParseFloat(Groups(BmeRe, 3).cap[1]), last.before.sensors.airTemp)
         /\ sensors.pressure = nz(ParseFloat(Groups(BmeRe, 3).cap[2]), last.before.sensors.pressure)
         /\ sensors.airHumidity
              = nz(ParseFloat(Groups(BmeRe, 3).cap[3]), last.before.sensors.airHumidity)
         /\ sensors.soilHumidity
              = nz(JRound(MeanOfTexts(Groups(SoilRe, 3).cap)), last.before.sensors.soilHumidity)
         /\ sensors.waterLevel
              = nz(JRound(MeanOfTexts(Groups(WaterRe, 2).cap)), last.before.sensors.waterLevel)
         /\ pumps.irrigation = JBool(Groups(PompaRe, 2).cap[1] = "ON")
         /\ pumps.suction = JBool(Groups(PompaRe, 2).cap[2] = "ON")

\* /^P(\d+)T(\d+)H(\d+)W(\d+)A(\d+)H(\d+)$/: the ultra-short grammar with its
\* six numbers as groups, in the order of ScalarFields
UltraNumbers ==
  <<Lit("P"), Cls(Digits, "+", 1), Lit("T"), Cls(Digits, "+", 2), Lit("H"), Cls(Digits, "+", 3),
    Lit("W"), Cls(Digits, "+", 4), Lit("A"), Cls(Digits, "+", 5), Lit("H"), Cls(Digits, "+", 6)>>

\* The whole of the last payload against the ultra-short grammar
UltraWhole == RegexMatch(last.payload, UltraNumbers, 6, TRUE, TRUE)

\* C28: a payload is decoded as ultra-short only when the whole of it matches
\* P<digits>T<digits>H<digits>W<digits>A<digits>H<digits>; then pressure,
\* soilTemp, soilHumidity, waterLevel, airTemp and airHumidity take the six
\* numbers in that order; a payload with extra leading or trailing characters
\* or a missing field is never decoded as ultra-short.
C28_UltraShortValues ==
  PayloadHandled(FormatPayloads)
  => IF UltraWhole.ok
     THEN /\ dataSource = "stm32-ultra"
          /\ \A i \in 1..Len(ScalarFields) :
               sensors[ScalarFields[i]] = JInt(DigitsValue(UltraWhole.cap[i]))
     ELSE Current = last.before \/ dataSource # "stm32-ultra"

\* The part of C28 the handler keeps: only a whole match is decoded as
\* ultra-short, and each number that is not zero is applied in the order given
UltraAsCoded ==
  PayloadHandled(FormatPayloads)
  => IF UltraWhole.ok
     THEN /\ dataSource = "stm32-ultra"
          /\ \A i \in 1..Len(ScalarFields) :
               sensors[ScalarFields[i]]
                 = FieldFrom(UltraWhole.cap[i], last.before.sensors[ScalarFields[i]])
     ELSE Current = last.before \/ dataSource # "stm32-ultra"

\* A payload that matches all but the whole-payload anchoring was handled
UltraPartialHandled ==
  PayloadHandled({"xP701T21H52W12A26H62", "P701T21H52W12A26H62 ", "P701T21H52W12A26"})
  /\ last.before.dataSource = "stm32-ultra"

(* ---------------------------------------------------------------------- *)
(* Properties of the live publish and its completion                       *)
(* ---------------------------------------------------------------------- *)

\* C29: publishPumpControl reports a command as sent as soon as the publish
\* call has been issued on a connected session without throwing, and the call
\* then ends without the relay; the relay is asked exactly when the session is
\* missing, is not connected or the publish call throws; an error handed later
\* to the completion callback starts no relay request and leaves the pumps,
\* the optimistic update included, as they are.
C29_SentOnIssue ==
  /\ last.event = "auditSettled"
     => /\ last.sent <=> (last.session.exists /\ last.session.connected /\ ~last.threw)
        /\ last.sent => dispatch[last.id].pc = "published"
        /\ dispatch[last.id].pc = "relay"
           <=> (~last.session.exists \/ ~last.session.connected \/ last.threw)
  /\ last.event = "publishCompleted"
     => /\ Current = last.before
        /\ dispatch[last.id].pc = "done"

\* The publish of a pompa command ended with an error after the call had
\* returned: the irrigation pump is still shown as on and the call is over
C29_Witness ==
  /\ last.event = "publishCompleted"
  /\ last.outcome = "error"
  /\ last.payload = "pompa"
  /\ pumps.irrigation = JTrue
  /\ dispatch[last.id].pc = "done"

(* ---------------------------------------------------------------------- *)
(* Zero values in the text formats                                         *)
(* ---------------------------------------------------------------------- *)

\* The integer of a capture x, 0 when there is none
CaptureValue(x) == IF x = "" THEN JInt(0) ELSE JInt(DigitsValue(x))

\* The integers after the markers keys in s, in the order of ScalarFields
MarkedValues(s, keys) == [i \in 1..Len(keys) |-> CaptureValue(CaptureDigits(s, keys[i]))]

\* The six numbers of an ultra-short payload, zeros when s is not one
UltraValues(s) ==
  LET m == RegexMatch(s, UltraNumbers, 6, TRUE, TRUE)
  IN  [i \in 1..6 |-> IF m.ok THEN CaptureValue(m.cap[i]) ELSE JInt(0)]

\* The values the pipe-delimited summary s gives for the scalar fields: the
\* BME pressure, the BME temperature (for soilTemp and airTemp), the rounded
\* means and the BME humidity; the means are 0 when their block does not match
PipeValues(s) ==
  LET bme == RegexMatch(s, BmeRe, 3, FALSE, FALSE)
      soil == RegexMatch(s, SoilRe, 3, FALSE, FALSE)
      water == RegexMatch(s, WaterRe, 2, FALSE, FALSE)
      t == ParseFloat(bme.cap[1])
  IN  IF ~bme.ok THEN [i \in 1..6 |-> JInt(0)]
      ELSE <<ParseFloat(bme.cap[2]), t,
             IF soil.ok THEN JRound(MeanOfTexts(soil.cap)) ELSE JInt(0),
             IF water.ok THEN JRound(MeanOfTexts(water.cap)) ELSE JInt(0),
             t, ParseFloat(bme.cap[3])>>

\* The values the compact payload s gives for the scalar fields: the rounded
\* temp for soilTemp and airTemp, hum for the two humidities, none for
\* pressure and waterLevel
CompactValues(s) ==
  LET t == JRound(ParseFloat(FirstGroup(RegexMatch(s, TempRe, 1, FALSE, FALSE))))
      h == CaptureValue(CaptureDigits(s, "hum="))
  IN  <<JInt(0), t, h, JInt(0), t, h>>

\* The values the payload s of one of the five text formats gives for the six
\* scalar fields
ParsedValues(s) ==
  IF s \in CommaPayloads THEN MarkedValues(s, CommaKeys)
  ELSE IF s \in PrefixedPayloads THEN MarkedValues(RemoveFirst(s, "STM32_DATA_"), PrefixedKeys)
  ELSE IF s \in UltraPayloads THEN UltraValues(s)
  ELSE IF s \in PipePayloads THEN PipeValues(s)
  ELSE CompactValues(s)

\* Which of the six values of each payload of the text formats are not zero
ValueNotZero == [s \in FormatPayloads |-> [i \in 1..6 |-> Truthy(ParsedValues(s)[i])]]

\* C30: in the comma key=value, prefixed positional, ultra-short, temp=/hum=
\* and pipe-delimited formats a sensor field is overwritten only by a value
\* that is not zero: a field whose value is 0, or is not a number, keeps the
\* value it had, and no field is ever left at zero by a decode.
C30_ZeroKeepsPrevious ==
  PayloadHandled(FormatPayloads)
  => \A i \in 1..Len(ScalarFields) :
       LET f == ScalarFields[i]
       IN  /\ ~ValueNotZero[last.payload][i] => sensors[f] = last.before.sensors[f]
           /\ sensors[f] = last.before.sensors[f] \/ (IsNum(sensors[f]) /\ sensors[f].n # 0)

\* A comma key=value payload with sh=0 and wl=0 has been decoded: the two keep
\* their values and the air humidity is replaced
C30_Witness ==
  /\ PayloadHandled({"st=25,at=27,sh=0,ah=55,p=825,wl=0,c=1"})
  /\ dataSource = "stm32-comprehensive"
  /\ sensors.soilHumidity = last.before.sensors.soilHumidity
  /\ sensors.waterLevel = last.before.sensors.waterLevel
  /\ sensors.airHumidity = JInt(55)
  /\ last.before.sensors.airHumidity # JInt(55)



====
